---- MODULE Spec2Model ----
(***************************************************************************)
(* A model of the resilience primitives and of the reload path of          *)
(* ldesign-configmate:                                                      *)
(*   - CircuitBreaker, RetryManager, GracefulDegradation, ErrorContext and  *)
(*     ConfigRecoveryManager (src/src/utils/cache.ts, lines 238-519);       *)
(*   - ConfigManager.reload (src/src/core/config-manager.ts).               *)
(* Each component has its own next-state relation and specification; the    *)
(* variables of the other components stay as Init left them.                *)
(* Asynchronous functions are cut at their await points: one action per     *)
(* synchronous stretch.  Date.now() is the variable now.                    *)
(***************************************************************************)
EXTENDS Integers, Sequences, FiniteSets, TLC

VARIABLES
  now,              \* Date.now(), in model time units
  failureThreshold, \* CircuitBreakerOptions.failureThreshold of the standalone breaker
  resetTimeout,     \* CircuitBreakerOptions.resetTimeout of the standalone breaker
  cb,               \* the standalone CircuitBreaker's private fields
  cbPc,             \* per caller: position inside CircuitBreaker.execute
  cbLast,           \* observation: the most recent concluded call (or reset) on the breaker
  cbRun,            \* observation: consecutive failed invocations since the last success
  cbTrial,          \* observation: successes in a row since the OPEN -> HALF_OPEN trial began
  cbVia,            \* observation, per caller in flight: how its call passed the guard
  rt,               \* one RetryManager.execute call: its locals, position and observations
  rm,               \* ConfigRecoveryManager: circuitBreaker, errorContext, lastKnownGoodConfig
  rmCall,           \* per caller: position and locals of its loadConfigWithRecovery call
  rmLast,           \* observation: the most recent concluded loadConfigWithRecovery call
  rmStored,         \* observation: the value most recently stored as last known good
  rmSeen,           \* observation: failed loads in a row, and what each load found when it began
  cm,               \* ConfigManager: options, config, files, fileContents, isLoading
  cmCall,           \* per caller: position and locals of its reload() call
  cmLast,           \* observation: what the most recent step of a reload() concluded
  cache,            \* Cache: the Map in insertion order, maxSize, ttl
  cacheUse,         \* observation: the keys held, least recently read or written first
  cacheLast,        \* observation: the most recent call on the Cache
  ec,               \* EnhancedCache: the Map in insertion order, limits, currentMemory
  ecUse,            \* observation: the keys held, least recently read (get) or written first
  ecLast,           \* observation: the most recent call on the EnhancedCache
  sm,               \* SnapshotManager: snapshots (the Map in insertion order), maxSnapshots, history
  smLog,            \* observation: the ids created so far, and whether nothing was deleted
  smLast,           \* observation: the most recent call on the SnapshotManager
  heap,             \* the configuration objects in memory: reference -> content
  cms,              \* ConfigManager: config (a reference), snapshotManager, options
  cmsStored,        \* observation: what each id was given to store, and how many creates ran
  cmsLast,          \* observation: the most recent call on this ConfigManager
  db,               \* one debounce(fn, delay): delay, the closure's timeoutId, the pending timers
  dbCalls,          \* observation: the calls of the debounced function: time and arguments
  dbRuns,           \* observation: the runs of fn: time, arguments, the call that set the timer
  dc,               \* a ConfigManager's config, one level deep: key -> number or array
  dcLast,           \* observation: the most recent call and the 'change' records it emitted
  gd,               \* GracefulDegradation: fallbackStrategies and healthChecks, per service
  gdCall,           \* one executeWithFallback call: its position, service and counts so far
  gdLast,           \* observation: the most recent concluded executeWithFallback call
  ou,               \* object-utils: the objects in memory and the arguments of the call
  ouLast,           \* observation: the call made, the memory after it and what it returned
  er,               \* EnvResolver: env, strict, prefix and the lastIndex of ENV_VAR_REGEX
  erLast,           \* observation: the most recent call, the value it was given, its result
  wm,               \* a watching ConfigManager: config, files, isLoading, watcher, debouncedReload, its reload
  wmSeen            \* the files on disk, and observation: notifications, destroy() and loads after it

options == <<failureThreshold, resetTimeout>>
cbOwn == <<cb, cbPc, cbLast, cbRun, cbTrial, cbVia>>
rmOwn == <<rm, rmCall, rmLast, rmStored, rmSeen>>

cmOwn == <<cm, cmCall, cmLast>>
cacheOwn == <<cache, cacheUse, cacheLast>>
ecOwn == <<ec, ecUse, ecLast>>
smOwn == <<sm, smLog, smLast>>
cmsOwn == <<heap, cms, cmsStored, cmsLast>>
dbOwn == <<db, dbCalls, dbRuns>>
dcOwn == <<dc, dcLast>>
gdOwn == <<gd, gdCall, gdLast>>
ouOwn == <<ou, ouLast>>
erOwn == <<er, erLast>>
wmOwn == <<wm, wmSeen>>
laterOwn == <<dcOwn, gdOwn, ouOwn, erOwn, wmOwn>>
utilOwn == <<cacheOwn, ecOwn, smOwn, cmsOwn, dbOwn, laterOwn>>

vars == <<now, options, cbOwn, rt, rmOwn, cmOwn, utilOwn>>

\* what each component leaves alone
notCB == <<options, rt, rmOwn, cmOwn, utilOwn>>
notRetry == <<now, options, cbOwn, rmOwn, cmOwn, utilOwn>>
notRecovery == <<options, cbOwn, rt, cmOwn, utilOwn>>
notManager == <<now, options, cbOwn, rt, rmOwn, utilOwn>>
core == <<options, cbOwn, rt, rmOwn, cmOwn>>
notCache == <<core, ecOwn, smOwn, cmsOwn, dbOwn, laterOwn>>
notEnhanced == <<core, cacheOwn, smOwn, cmsOwn, dbOwn, laterOwn>>
notSnapshots == <<now, core, cacheOwn, ecOwn, cmsOwn, dbOwn, laterOwn>>
notRollback == <<core, cacheOwn, ecOwn, smOwn, dbOwn, laterOwn>>
earlierOwn == <<core, cacheOwn, ecOwn, smOwn, cmsOwn, dbOwn>>
notDebounce == <<core, cacheOwn, ecOwn, smOwn, cmsOwn, laterOwn>>
notDetector == <<now, earlierOwn, gdOwn, ouOwn, erOwn, wmOwn>>
notDegradation == <<now, earlierOwn, dcOwn, ouOwn, erOwn, wmOwn>>
notObjects == <<now, earlierOwn, dcOwn, gdOwn, erOwn, wmOwn>>
notResolver == <<now, earlierOwn, dcOwn, gdOwn, ouOwn, wmOwn>>
notWatch == <<earlierOwn, dcOwn, gdOwn, ouOwn, erOwn>>

(***************************************************************************)
(* Bounds of the model                                                     *)
(***************************************************************************)
MaxTime == 4
MaxThreshold == 3
MaxResetTimeout == 2
MaxAttempts == 4
MaxSize == 2
MaxSnapshots == 2
MaxCreates == 4
MaxStored == 3
MaxSnapTime == 2

Callers == {"a", "b"}

(***************************************************************************)
(* CircuitBreaker: src/src/utils/cache.ts 282-340                          *)
(***************************************************************************)
CircuitBreaker_new ==
  [state |-> "CLOSED", failures |-> 0, lastFailureTime |-> 0, successCount |-> 0]

\* mutant: an OPEN breaker that lets every call through
CircuitBreaker_rejects_never(b, t, timeout) == FALSE

\* execute, lines 291-298: true when the call throws 'Circuit breaker is OPEN'
CircuitBreaker_rejects(b, t, timeout) ==
  b.state = "OPEN" /\ ~(t - b.lastFailureTime >= timeout)

\* mutant: the HALF_OPEN transition keeps the successCount of an earlier trial
CircuitBreaker_enter_staleCount(b, t, timeout) ==
  IF b.state = "OPEN" /\ t - b.lastFailureTime >= timeout
    THEN [b EXCEPT !.state = "HALF_OPEN"]
    ELSE b

\* execute, lines 291-298: the breaker's fields when the guard has been passed
CircuitBreaker_enter(b, t, timeout) ==
  IF b.state = "OPEN" /\ t - b.lastFailureTime >= timeout
    THEN [b EXCEPT !.state = "HALF_OPEN", !.successCount = 0]
    ELSE b

CircuitBreaker_onSuccess(b) ==
  LET b1 == [b EXCEPT !.failures = 0]
  IN IF b1.state = "HALF_OPEN"
       THEN LET b2 == [b1 EXCEPT !.successCount = b1.successCount + 1]
            IN IF b2.successCount >= 3
                 THEN [b2 EXCEPT !.state = "CLOSED"]
                 ELSE b2
       ELSE b1

\* mutant: the breaker opens one failure late
CircuitBreaker_onFailure_late(b, t, threshold) ==
  LET b1 == [b EXCEPT !.failures = b.failures + 1, !.lastFailureTime = t]
  IN IF b1.failures > threshold
       THEN [b1 EXCEPT !.state = "OPEN"]
       ELSE b1

CircuitBreaker_onFailure(b, t, threshold) ==
  LET b1 == [b EXCEPT !.failures = b.failures + 1, !.lastFailureTime = t]
  IN IF b1.failures >= threshold
       THEN [b1 EXCEPT !.state = "OPEN"]
       ELSE b1

CircuitBreaker_reset(b) ==
  [state |-> "CLOSED", failures |-> 0, successCount |-> 0, lastFailureTime |-> 0]

NoCall == [kind |-> "none", caller |-> "-", invoked |-> FALSE,
           pre |-> CircuitBreaker_new, at |-> 0]

CbIdle == \A c \in Callers : cbPc[c] = "idle"

\* the options a breaker is constructed with
InitOptions ==
  /\ failureThreshold \in 1..MaxThreshold
  /\ resetTimeout \in 1..MaxResetTimeout

\* one fixed breaker configuration, for the specifications of components
\* that have no breaker
ParkedOptions ==
  /\ failureThreshold = 1
  /\ resetTimeout = 1

InitCB ==
  /\ now = 1
  /\ cb = CircuitBreaker_new
  /\ cbPc = [c \in Callers |-> "idle"]
  /\ cbLast = NoCall
  /\ cbRun = 0
  /\ cbTrial = -1
  /\ cbVia = [c \in Callers |-> "-"]

\* the clock advances between any two synchronous stretches
Tick ==
  /\ now < MaxTime
  /\ now' = now + 1
  /\ UNCHANGED <<cbOwn, notCB>>

\* execute, lines 290-301: the guard, then the wrapped operation is invoked
\* and the call suspends on it (or the call throws the OPEN error)
CB_execute(c) ==
  /\ cbPc[c] = "idle"
  /\ cb' = CircuitBreaker_enter(cb, now, resetTimeout)
  /\ IF CircuitBreaker_rejects(cb, now, resetTimeout)
       THEN /\ cbLast' = [kind |-> "rejected", caller |-> c, invoked |-> FALSE,
                          pre |-> cb, at |-> now]
            /\ UNCHANGED <<cbPc, cbTrial, cbVia>>
       ELSE /\ cbPc' = [cbPc EXCEPT ![c] = "inOp"]
            /\ cbLast' = [kind |-> "entered", caller |-> c, invoked |-> TRUE,
                          pre |-> cb, at |-> now]
            /\ cbTrial' = IF cb.state = "OPEN" THEN 0 ELSE cbTrial
            /\ cbVia' = [cbVia EXCEPT ![c] =
                           IF cb.state = "OPEN" THEN "trial"
                           ELSE IF \E d \in Callers \ {c} : cbVia[d] = "trial"
                                  THEN "duringTrial"
                                  ELSE "plain"]
  /\ UNCHANGED <<now, cbRun, notCB>>

\* execute, lines 301-303: the wrapped operation resolved
CB_operationResolves(c) ==
  /\ cbPc[c] = "inOp"
  /\ cb' = CircuitBreaker_onSuccess(cb)
  /\ cbPc' = [cbPc EXCEPT ![c] = "idle"]
  /\ cbVia' = [cbVia EXCEPT ![c] = "-"]
  /\ cbLast' = [kind |-> "ok", caller |-> c, invoked |-> TRUE, pre |-> cb, at |-> now]
  /\ cbRun' = 0
  /\ cbTrial' = IF cbTrial \in 0..2 THEN cbTrial + 1 ELSE -1
  /\ UNCHANGED <<now, notCB>>

\* execute, lines 304-307: the wrapped operation rejected
CB_operationRejects(c) ==
  /\ cbPc[c] = "inOp"
  /\ cb' = CircuitBreaker_onFailure(cb, now, failureThreshold)
  /\ cbPc' = [cbPc EXCEPT ![c] = "idle"]
  /\ cbVia' = [cbVia EXCEPT ![c] = "-"]
  /\ cbLast' = [kind |-> "fail", caller |-> c, invoked |-> TRUE, pre |-> cb, at |-> now]
  /\ cbRun' = cbRun + 1
  /\ cbTrial' = -1
  /\ UNCHANGED <<now, notCB>>

CB_reset ==
  /\ cb # CircuitBreaker_new
  /\ cb' = CircuitBreaker_reset(cb)
  /\ cbLast' = [kind |-> "reset", caller |-> "-", invoked |-> FALSE, pre |-> cb, at |-> now]
  /\ cbRun' = 0
  /\ cbTrial' = -1
  /\ UNCHANGED <<now, cbPc, cbVia, notCB>>

\* callers that each await their call before making the next one
NextCBSeq ==
  \/ Tick
  \/ \E c \in Callers : CbIdle /\ CB_execute(c)
  \/ \E c \in Callers : CB_operationResolves(c)
  \/ \E c \in Callers : CB_operationRejects(c)
  \/ CbIdle /\ CB_reset

\* callers that interleave at the await of the wrapped operation
NextCB ==
  \/ Tick
  \/ \E c \in Callers : CB_execute(c)
  \/ \E c \in Callers : CB_operationResolves(c)
  \/ \E c \in Callers : CB_operationRejects(c)
  \/ CB_reset

(***************************************************************************)
(* RetryManager: src/src/utils/cache.ts 238-277                            *)
(* An error is [kind, msg, by]: msg is the message as a sequence of words   *)
(* and by numbers the invocation that raised it, so that two errors with    *)
(* the same message are still two errors.                                   *)
(***************************************************************************)
Includes(msg, word) == \E i \in 1..Len(msg) : msg[i] = word

Min(x, y) == IF x <= y THEN x ELSE y

\* {...a, ...b} on objects held as functions from their keys
Spread(a, b) ==
  [k \in (DOMAIN a) \cup (DOMAIN b) |-> IF k \in DOMAIN b THEN b[k] ELSE a[k]]

EmptyObject == [k \in {} |-> 0]

NoError == [kind |-> "none", msg |-> <<>>, by |-> 0, context |-> EmptyObject]

\* new Error(message) raised by invocation number by of an operation
NewError(kind, msg, by) == [kind |-> kind, msg |-> msg, by |-> by, context |-> EmptyObject]

\* the messages an operation may fail with
Messages == {<<"load", "failure">>, <<"SyntaxError", "invalid">>}

RetryManager_defaultOptions ==
  [maxAttempts |-> 3, delay |-> 1000, backoffMultiplier |-> 2, maxDelay |-> 30000,
   shouldRetry |-> "default"]

\* the shouldRetry functions: "default" is defaultOptions.shouldRetry (line 244),
\* "recovery" the one loadConfigWithRecovery passes (lines 467-473), the others
\* are callers' own (tests/error-recovery.test.ts 54)
Policies == {"default", "never", "always", "notSyntax", "recovery"}

shouldRetry(policy, error, attempt) ==
  CASE policy = "default" -> attempt < 3
    [] policy = "never" -> FALSE
    [] policy = "always" -> TRUE
    [] policy = "notSyntax" -> ~Includes(error.msg, "SyntaxError")
    [] policy = "recovery" ->
         IF Includes(error.msg, "SyntaxError") \/ Includes(error.msg, "parse")
           THEN FALSE
           ELSE attempt < 3

\* execute, lines 251-257: the options are merged, the loop starts and the
\* operation is invoked for the first time (maxAttempts >= 1)
RetryManager_begin(retryOptions) ==
  LET opts == Spread(RetryManager_defaultOptions, retryOptions)
  IN [pc |-> "inOp", opts |-> opts, attempt |-> 1, delay |-> opts.delay,
      lastError |-> NoError, thrown |-> NoError, result |-> 0, slept |-> 0,
      invocations |-> 1, sleeps |-> 0]

\* mutant: the catch block does not look at the attempt number, so the final
\* failure sleeps before the throw after the loop
RetryManager_catch_sleepsOnLast(r, error) ==
  LET r1 == [r EXCEPT !.lastError = error]
  IN IF ~shouldRetry(r1.opts.shouldRetry, r1.lastError, r1.attempt)
       THEN [r1 EXCEPT !.pc = "rejected", !.thrown = r1.lastError]
       ELSE [r1 EXCEPT !.pc = "sleeping",
                       !.slept = Min(r1.delay, r1.opts.maxDelay),
                       !.sleeps = r1.sleeps + 1]

\* execute, lines 258-266: the catch block, up to the sleep or the throw
RetryManager_catch(r, error) ==
  LET r1 == [r EXCEPT !.lastError = error]
  IN IF r1.attempt = r1.opts.maxAttempts
        \/ ~shouldRetry(r1.opts.shouldRetry, r1.lastError, r1.attempt)
       THEN [r1 EXCEPT !.pc = "rejected", !.thrown = r1.lastError]
       ELSE [r1 EXCEPT !.pc = "sleeping",
                       !.slept = Min(r1.delay, r1.opts.maxDelay),
                       !.sleeps = r1.sleeps + 1]

\* execute, lines 267, 255-257 and 271: after the sleep the delay grows, the
\* loop goes round and invokes the operation again, or ends and throws
RetryManager_afterSleep(r) ==
  LET r1 == [r EXCEPT !.delay = r.delay * r.opts.backoffMultiplier,
                      !.attempt = r.attempt + 1]
  IN IF r1.attempt <= r1.opts.maxAttempts
       THEN [r1 EXCEPT !.pc = "inOp", !.invocations = r1.invocations + 1]
       ELSE [r1 EXCEPT !.pc = "rejected", !.thrown = r1.lastError]

RetryIdle == [pc |-> "idle"]

InitRetry == rt = [call |-> RetryIdle, plan |-> 0, raised |-> NoError]

\* execute(operation, options): plan is the operation's behaviour, the number
\* of the first invocation that resolves (MaxAttempts + 1: none does)
RT_execute ==
  /\ rt.call.pc = "idle"
  /\ \E n \in 1..MaxAttempts, policy \in Policies \ {"recovery"}, k \in 1..(MaxAttempts + 1) :
       rt' = [call |-> RetryManager_begin(
                         IF policy = "default"
                           THEN [maxAttempts |-> n]
                           ELSE [maxAttempts |-> n, shouldRetry |-> policy]),
              plan |-> k, raised |-> NoError]
  /\ UNCHANGED notRetry

\* line 257: the pending invocation resolves and execute returns its value
RT_operationResolves ==
  /\ rt.call.pc = "inOp"
  /\ rt.call.invocations >= rt.plan
  /\ rt' = [rt EXCEPT !.call.pc = "resolved", !.call.result = rt.call.invocations]
  /\ UNCHANGED notRetry

\* lines 258-266: the pending invocation rejects
RT_operationRejects ==
  /\ rt.call.pc = "inOp"
  /\ rt.call.invocations < rt.plan
  /\ \E m \in Messages :
       LET error == NewError("Error", m, rt.call.invocations)
       IN rt' = [rt EXCEPT !.call = RetryManager_catch(rt.call, error),
                           !.raised = error]
  /\ UNCHANGED notRetry

\* lines 266-267: the back-off timer fires
RT_wake ==
  /\ rt.call.pc = "sleeping"
  /\ rt' = [rt EXCEPT !.call = RetryManager_afterSleep(rt.call)]
  /\ UNCHANGED notRetry

\* the caller has its answer; the manager is ready for the next call
RT_settled ==
  /\ rt.call.pc \in {"resolved", "rejected"}
  /\ rt' = [call |-> RetryIdle, plan |-> 0, raised |-> NoError]
  /\ UNCHANGED notRetry

NextRetry ==
  \/ RT_execute
  \/ RT_operationResolves
  \/ RT_operationRejects
  \/ RT_wake
  \/ RT_settled

(***************************************************************************)
(* GracefulDegradation, ErrorContext, ConfigRecoveryManager:               *)
(* src/src/utils/cache.ts 345-519                                          *)
(* A JavaScript value is [t, v]: its type and a number telling values of    *)
(* one type apart.                                                          *)
(***************************************************************************)
Undefined == [t |-> "undefined", v |-> 0]
Null == [t |-> "null", v |-> 0]
Object(n) == [t |-> "object", v |-> n]

\* ToBoolean, as applied by if (...) and !!
Truthy(x) ==
  CASE x.t = "undefined" -> FALSE
    [] x.t = "null" -> FALSE
    [] x.t = "number" -> x.v # 0
    [] x.t = "object" -> TRUE
    [] x.t = "string" -> x.v # 0
    [] x.t = "boolean" -> x.v # 0
    [] x.t = "function" -> TRUE

\* the configurations a loader may resolve with, or a caller may store
ConfigValues == {Object(1), Object(2), Null}

\* the errors a loader may reject with: their class and message
LoaderErrors ==
  {[kind |-> "Error", msg |-> <<"load", "failure">>],
   [kind |-> "LoaderError", msg |-> <<"SyntaxError", "invalid">>]}

\* the retryOptions a caller may pass to loadConfigWithRecovery
RecoveryRetryOptions == {EmptyObject, [maxAttempts |-> 1]}

Ok(value) == [ok |-> TRUE, value |-> value, error |-> NoError]
Err(error) == [ok |-> FALSE, value |-> Undefined, error |-> error]

ErrorContext_set(context, key, value) ==
  [k \in (DOMAIN context) \cup {key} |-> IF k = key THEN value ELSE context[k]]

\* wrapError: a new Error whose message is the error's message followed by the
\* context; msg keeps the message part and context the appended part
ErrorContext_wrapError(context, error, additionalContext) ==
  [kind |-> "Error", msg |-> error.msg, by |-> 0,
   context |-> Spread(context, additionalContext)]

\* the 'config-load' fallback registered by the constructor, lines 443-449
ConfigLoadFallback(lastKnownGoodConfig) ==
  IF Truthy(lastKnownGoodConfig)
    THEN Ok(lastKnownGoodConfig)
    ELSE Err(NewError("Error", <<"No", "fallback", "configuration", "available">>, 0))

\* executeWithFallback, lines 378-386, for a service with a registered fallback
GracefulDegradation_catch(lastKnownGoodConfig, error) ==
  ConfigLoadFallback(lastKnownGoodConfig)

IdleCall ==
  [pc |-> "idle", retry |-> RetryIdle, outcome |-> Ok(Undefined),
   loaderFailed |-> FALSE, loaderError |-> NoError, fromLoader |-> FALSE,
   cbAtFailure |-> "-"]

NoLoad ==
  [kind |-> "none", caller |-> "-", value |-> Undefined, thrown |-> NoError,
   loaderFailed |-> FALSE, loaderError |-> NoError, cbAtFailure |-> "-",
   stored |-> [has |-> FALSE, value |-> Undefined], contextAfter |-> EmptyObject]

RmIdle == \A c \in Callers : rmCall[c].pc = "idle"

\* getStats().hasLastKnownGoodConfig, line 507
hasLastKnownGoodConfig(lastKnownGoodConfig) == Truthy(lastKnownGoodConfig)

\* what a load found when it began: the breaker's fields and the time
NoStart == [breaker |-> CircuitBreaker_new, at |-> 0]
\* run: the concluded loads in a row whose loader failed after its retries;
\* last: for the load that concluded last, what it found when it began, how
\* often its loader was invoked and the last known good configuration it found
NotSeen ==
  [run |-> 0, start |-> [c \in Callers |-> NoStart],
   last |-> [breaker |-> CircuitBreaker_new, at |-> 0, invocations |-> 0,
             known |-> Undefined]]

\* constructor, lines 434-450; failureThreshold and resetTimeout are the
\* circuitBreakerOptions passed to it
InitRecovery ==
  /\ rm = [circuitBreaker |-> CircuitBreaker_new, errorContext |-> EmptyObject,
           lastKnownGoodConfig |-> Undefined]
  /\ rmCall = [c \in Callers |-> IdleCall]
  /\ rmLast = NoLoad
  /\ rmStored = [has |-> FALSE, value |-> Undefined]
  /\ rmSeen = NotSeen

RM_tick ==
  /\ now < MaxTime
  /\ now' = now + 1
  /\ UNCHANGED <<notRecovery, rmOwn>>

\* loadConfigWithRecovery, lines 459-466, down to the first await that can
\* suspend: the context is set, no health check is registered, the breaker's
\* guard runs and either throws or lets RetryManager.execute invoke the loader
RM_loadConfigWithRecovery(c) ==
  /\ rmCall[c].pc = "idle"
  /\ \E retryOptions \in RecoveryRetryOptions :
       LET context == ErrorContext_set(
                        ErrorContext_set(rm.errorContext, "operation", "config-load"),
                        "timestamp", now)
           breaker == rm.circuitBreaker
       IN /\ rm' = [rm EXCEPT !.errorContext = context,
                              !.circuitBreaker =
                                 CircuitBreaker_enter(breaker, now, resetTimeout)]
          /\ rmCall' = [rmCall EXCEPT ![c] =
               IF CircuitBreaker_rejects(breaker, now, resetTimeout)
                 THEN [IdleCall EXCEPT
                         !.pc = "breakerSettled",
                         !.outcome = Err(NewError("Error",
                                       <<"Circuit", "breaker", "is", "OPEN">>, 0))]
                 ELSE [IdleCall EXCEPT
                         !.pc = "inLoader",
                         !.retry = RetryManager_begin(
                                     Spread([shouldRetry |-> "recovery"], retryOptions))]]
  /\ rmLast' = NoLoad
  /\ rmSeen' = [rmSeen EXCEPT !.start[c] = [breaker |-> rm.circuitBreaker, at |-> now],
                               !.last = NotSeen.last]
  /\ UNCHANGED <<now, rmStored, notRecovery>>

\* RetryManager.execute inside the call: the loader resolved (line 257)
RM_loaderResolves(c) ==
  /\ rmCall[c].pc = "inLoader"
  /\ \E value \in ConfigValues :
       rmCall' = [rmCall EXCEPT ![c].pc = "retrySettled",
                                ![c].retry.pc = "resolved",
                                ![c].outcome = Ok(value),
                                ![c].fromLoader = TRUE]
  /\ UNCHANGED <<now, rm, rmLast, rmStored, rmSeen, notRecovery>>

\* RetryManager.execute inside the call: the loader rejected (lines 258-266)
RM_loaderRejects(c) ==
  /\ rmCall[c].pc = "inLoader"
  /\ \E e \in LoaderErrors :
       LET error == NewError(e.kind, e.msg, rmCall[c].retry.invocations)
           retry == RetryManager_catch(rmCall[c].retry, error)
       IN rmCall' = [rmCall EXCEPT ![c] =
            IF retry.pc = "rejected"
              THEN [@ EXCEPT !.pc = "retrySettled", !.retry = retry,
                             !.outcome = Err(retry.thrown),
                             !.loaderFailed = TRUE, !.loaderError = error]
              ELSE [@ EXCEPT !.pc = "sleeping", !.retry = retry]]
  /\ UNCHANGED <<now, rm, rmLast, rmStored, rmSeen, notRecovery>>

\* RetryManager.execute inside the call: the back-off sleep is over
RM_wake(c) ==
  /\ rmCall[c].pc = "sleeping"
  /\ LET retry == RetryManager_afterSleep(rmCall[c].retry)
     IN rmCall' = [rmCall EXCEPT ![c] =
          IF retry.pc = "rejected"
            THEN [@ EXCEPT !.pc = "retrySettled", !.retry = retry,
                           !.outcome = Err(retry.thrown),
                           !.loaderFailed = TRUE, !.loaderError = retry.thrown]
            ELSE [@ EXCEPT !.pc = "inLoader", !.retry = retry]]
  /\ UNCHANGED <<now, rm, rmLast, rmStored, rmSeen, notRecovery>>

\* CircuitBreaker.execute resumes, lines 301-307
RM_breakerResumes(c) ==
  /\ rmCall[c].pc = "retrySettled"
  /\ LET breaker == IF rmCall[c].outcome.ok
                      THEN CircuitBreaker_onSuccess(rm.circuitBreaker)
                      ELSE CircuitBreaker_onFailure(rm.circuitBreaker, now, failureThreshold)
     IN /\ rm' = [rm EXCEPT !.circuitBreaker = breaker]
        /\ rmCall' = [rmCall EXCEPT ![c].pc = "breakerSettled",
                                    ![c].cbAtFailure =
                                       IF rmCall[c].outcome.ok THEN "-" ELSE breaker.state]
  /\ UNCHANGED <<now, rmLast, rmStored, rmSeen, notRecovery>>

\* GracefulDegradation.executeWithFallback resumes, lines 377-386
RM_degradationResumes(c) ==
  /\ rmCall[c].pc = "breakerSettled"
  /\ rmCall' = [rmCall EXCEPT
                  ![c].pc = "degradationSettled",
                  ![c].outcome =
                     IF rmCall[c].outcome.ok
                       THEN rmCall[c].outcome
                       ELSE GracefulDegradation_catch(rm.lastKnownGoodConfig,
                                                      rmCall[c].outcome.error)]
  /\ UNCHANGED <<now, rm, rmLast, rmStored, rmSeen, notRecovery>>

\* loadConfigWithRecovery resumes, lines 479-488: store and return, or wrap
\* and throw; finally the context is cleared
RM_loadResumes(c) ==
  /\ rmCall[c].pc = "degradationSettled"
  /\ LET call == rmCall[c]
         thrown == ErrorContext_wrapError(rm.errorContext, call.outcome.error,
                     [circuitBreakerState |-> rm.circuitBreaker.state])
     IN /\ rm' = [rm EXCEPT
                    !.lastKnownGoodConfig =
                       IF call.outcome.ok THEN call.outcome.value ELSE @,
                    !.errorContext = EmptyObject]
        /\ rmLast' = [kind |-> IF call.outcome.ok THEN "resolved" ELSE "rejected",
                      caller |-> c,
                      value |-> call.outcome.value,
                      thrown |-> IF call.outcome.ok THEN NoError ELSE thrown,
                      loaderFailed |-> call.loaderFailed,
                      loaderError |-> call.loaderError,
                      cbAtFailure |-> call.cbAtFailure,
                      stored |-> rmStored,
                      contextAfter |-> EmptyObject]
        /\ rmStored' = IF call.outcome.ok /\ call.fromLoader
                         THEN [has |-> TRUE, value |-> call.outcome.value]
                         ELSE rmStored
        /\ rmSeen' = [run |-> IF call.loaderFailed THEN rmSeen.run + 1
                              ELSE IF call.fromLoader THEN 0
                              ELSE rmSeen.run,
                      start |-> [rmSeen.start EXCEPT ![c] = NoStart],
                      last |-> [breaker |-> rmSeen.start[c].breaker,
                                at |-> rmSeen.start[c].at,
                                invocations |-> IF call.retry.pc = "idle" THEN 0
                                                ELSE call.retry.invocations,
                                known |-> rm.lastKnownGoodConfig]]
  /\ rmCall' = [rmCall EXCEPT ![c] = IdleCall]
  /\ UNCHANGED <<now, notRecovery>>

RM_setLastKnownGoodConfig ==
  /\ \E config \in ConfigValues :
       /\ rm' = [rm EXCEPT !.lastKnownGoodConfig = config]
       /\ rmStored' = [has |-> TRUE, value |-> config]
  /\ rmLast' = NoLoad
  /\ rmSeen' = [rmSeen EXCEPT !.last = NotSeen.last]
  /\ UNCHANGED <<now, rmCall, notRecovery>>

RM_reset ==
  /\ rm' = [rm EXCEPT !.circuitBreaker = CircuitBreaker_reset(rm.circuitBreaker),
                      !.errorContext = EmptyObject,
                      !.lastKnownGoodConfig = Undefined]
  /\ rmStored' = [has |-> FALSE, value |-> Undefined]
  /\ rmLast' = NoLoad
  /\ rmSeen' = [rmSeen EXCEPT !.run = 0, !.last = NotSeen.last]
  /\ UNCHANGED <<now, rmCall, notRecovery>>

\* calls on the manager made one after another, each awaited: one caller
NextRecoverySeq ==
  \/ RM_tick
  \/ \E c \in {"a"} : RmIdle /\ RM_loadConfigWithRecovery(c)
  \/ \E c \in {"a"} : RM_loaderResolves(c)
  \/ \E c \in {"a"} : RM_loaderRejects(c)
  \/ \E c \in {"a"} : RM_wake(c)
  \/ \E c \in {"a"} : RM_breakerResumes(c)
  \/ \E c \in {"a"} : RM_degradationResumes(c)
  \/ \E c \in {"a"} : RM_loadResumes(c)
  \/ RmIdle /\ RM_setLastKnownGoodConfig
  \/ RmIdle /\ RM_reset

\* loads by two callers that overlap at their awaits, within one clock reading
NextRecovery ==
  \/ \E c \in Callers : RM_loadConfigWithRecovery(c)
  \/ \E c \in Callers : RM_loaderResolves(c)
  \/ \E c \in Callers : RM_loaderRejects(c)
  \/ \E c \in Callers : RM_wake(c)
  \/ \E c \in Callers : RM_breakerResumes(c)
  \/ \E c \in Callers : RM_degradationResumes(c)
  \/ \E c \in Callers : RM_loadResumes(c)

(***************************************************************************)
(* ConfigManager.reload: src/src/core/config-manager.ts 109-244            *)
(* A configuration (a nested object of scalars) is held as the function     *)
(* from the paths of its leaves to their values: {server: {port: 3000}} is  *)
(* (<<"server", "port">> :> 3000).                                          *)
(* The manager is built with autoSnapshot off (the default, line 55), so    *)
(* lines 162-169 of reload do nothing, and with no listener that throws.    *)
(***************************************************************************)
IsPrefix(p, q) == Len(p) <= Len(q) /\ SubSeq(q, 1, Len(p)) = p

EmptyConfig == [p \in {} |-> 0]

\* mutant: a deep merge in which what is already held wins
MergeDeep_targetWins(target, source) ==
  LET kept == {p \in DOMAIN source :
                 \A q \in DOMAIN target : ~IsPrefix(p, q) /\ ~IsPrefix(q, p)}
  IN [p \in kept \cup DOMAIN target |-> IF p \in DOMAIN target THEN target[p] ELSE source[p]]

\* lodash.merge({}, target, source), line 243: objects are merged key by key,
\* anything else in source replaces what target has at that key
MergeDeep(target, source) ==
  LET kept == {p \in DOMAIN target :
                 \A q \in DOMAIN source : ~IsPrefix(p, q) /\ ~IsPrefix(q, p)}
  IN [p \in kept \cup DOMAIN source |-> IF p \in DOMAIN source THEN source[p] ELSE target[p]]

\* { ...target, ...source }, line 239: source's top-level keys replace target's
MergeShallow(target, source) ==
  LET kept == {p \in DOMAIN target : \A q \in DOMAIN source : q[1] # p[1]}
  IN [p \in kept \cup DOMAIN source |-> IF p \in DOMAIN source THEN source[p] ELSE target[p]]

mergeConfig(mergeStrategy, target, source) ==
  CASE mergeStrategy = "replace" -> source
    [] mergeStrategy = "shallow" -> MergeShallow(target, source)
    [] mergeStrategy = "deep" -> MergeDeep(target, source)

\* parseConfigContent, lines 199-228, for a file content [base, hasEnv, env]:
\* the content without its env key, whether it has one, and that env object;
\* the values hold no ${...} placeholders, so resolve() returns them as they are
parseConfigContent(opts, content) ==
  IF content.hasEnv
    THEN mergeConfig(opts.mergeStrategy, content.base,
                     IF opts.env \in DOMAIN content.env
                       THEN content.env[opts.env]
                       ELSE EmptyConfig)
    ELSE content.base

\* what a path leads to in a configuration
NodeKind(config, p) ==
  IF p \in DOMAIN config THEN "scalar"
  ELSE IF \E q \in DOMAIN config : IsPrefix(p, q) THEN "object"
  ELSE "absent"

\* mutant: a detector that finds nothing
detectChanges_none(oldConfig, newConfig) == {}

\* detectChanges, lines 8-75, over deep-diff: the type and path of each record
detectChanges(oldConfig, newConfig) ==
  LET paths == UNION {{SubSeq(q, 1, n) : n \in 1..Len(q)} :
                        q \in (DOMAIN oldConfig) \cup (DOMAIN newConfig)}
      reached(p) == \A n \in 1..(Len(p) - 1) :
                       /\ NodeKind(oldConfig, SubSeq(p, 1, n)) = "object"
                       /\ NodeKind(newConfig, SubSeq(p, 1, n)) = "object"
      type(p) ==
        LET o == NodeKind(oldConfig, p)
            n == NodeKind(newConfig, p)
        IN IF o = "absent" /\ n = "absent" THEN "none"
           ELSE IF o = "absent" THEN "added"
           ELSE IF n = "absent" THEN "deleted"
           ELSE IF o = "object" /\ n = "object" THEN "none"
           ELSE IF o = "scalar" /\ n = "scalar" /\ oldConfig[p] = newConfig[p] THEN "none"
           ELSE "modified"
  IN {[type |-> type(p), path |-> p] : p \in {q \in paths : reached(q) /\ type(q) # "none"}}

\* the value deep-diff reports for a side of a difference (lhs, rhs): the
\* scalar at the path, or the object below it
ValueAt(config, p) ==
  IF p \in DOMAIN config
    THEN config[p]
    ELSE [q \in {SubSeq(r, Len(p) + 1, Len(r)) : r \in {r \in DOMAIN config : IsPrefix(p, r)}}
            |-> config[p \o q]]

\* the ConfigChange records of detectChanges, lines 21-71, with the values each
\* kind of difference carries (file, environment and timestamp left out)
ConfigChanges(oldConfig, newConfig) ==
  {CASE d.type = "added" -> [type |-> d.type, path |-> d.path,
                             newValue |-> ValueAt(newConfig, d.path)]
     [] d.type = "deleted" -> [type |-> d.type, path |-> d.path,
                               oldValue |-> ValueAt(oldConfig, d.path)]
     [] d.type = "modified" -> [type |-> d.type, path |-> d.path,
                                oldValue |-> ValueAt(oldConfig, d.path),
                                newValue |-> ValueAt(newConfig, d.path)]
   : d \in detectChanges(oldConfig, newConfig)}

P_port == <<"server", "port">>
P_server == <<"server">>
P_name == <<"name">>

\* options.defaults a manager may be built with
Defaults == {EmptyConfig, (P_name :> 1)}

\* what findConfigFiles may find on disk: base files first, then the files of
\* the active environment (config-loader.ts 196-245)
BaseFile ==
  [path |-> "config.json", isEnvFile |-> FALSE, environment |-> "-",
   loaded |-> FALSE, parsed |-> EmptyConfig]
EnvFile ==
  [path |-> "config.development.json", isEnvFile |-> TRUE, environment |-> "development",
   loaded |-> FALSE, parsed |-> EmptyConfig]
FileLists == {<<>>, <<BaseFile>>, <<BaseFile, EnvFile>>}

\* what loadFile may resolve with for a file, as the files change on disk
Contents(file) ==
  IF file.isEnvFile
    THEN {[base |-> (P_port :> 8080), hasEnv |-> FALSE, env |-> EmptyObject],
          [base |-> (P_server :> 1), hasEnv |-> FALSE, env |-> EmptyObject]}
    ELSE {[base |-> (P_port :> 3000), hasEnv |-> FALSE, env |-> EmptyObject],
          [base |-> (P_port :> 3000) @@ (P_name :> 2), hasEnv |-> TRUE,
           env |-> [development |-> (P_name :> 3)]]}

\* what options.validate may do with the merged configuration (line 157)
Validations == {"true", "void", "false", "throws"}

\* mutant: reload() without its reentrancy guard
reload_guard_absent(isLoading) == FALSE

\* line 110: the reentrancy guard
reload_guard(isLoading) == isLoading

\* mutant: the merged configuration is assigned before it is validated
reload_commit_early(config, newConfig, validation) == newConfig

\* lines 156-180: the configuration held once validation has run
reload_commit(config, newConfig, validation) ==
  IF validation \in {"false", "throws"} THEN config ELSE newConfig

\* lines 182-189: the events emitted, in order
reload_events(config, newConfig, validation) ==
  IF validation \in {"false", "throws"}
    THEN <<"error">>
    ELSE <<"loaded">>
         \o (IF detectChanges(config, newConfig) # {} THEN <<"change">> ELSE <<>>)
         \o <<"reload">>

IdleReload ==
  [pc |-> "idle", queue |-> <<>>, index |-> 0, newConfig |-> EmptyConfig,
   before |-> EmptyConfig]

NoReload ==
  [kind |-> "none", caller |-> "-", events |-> <<>>, before |-> EmptyConfig,
   newConfig |-> EmptyConfig, cause |-> "-", pre |-> <<>>]

\* constructor, lines 36-93
ConfigManager_new(mergeStrategy, defaults) ==
  [options |-> [mergeStrategy |-> mergeStrategy, defaults |-> defaults,
                env |-> "development"],
   config |-> defaults, files |-> <<>>, fileContents |-> EmptyObject,
   isLoading |-> FALSE]

InitManager ==
  /\ \E mergeStrategy \in {"deep", "shallow", "replace"}, defaults \in Defaults :
       cm = ConfigManager_new(mergeStrategy, defaults)
  /\ cmCall = [c \in Callers |-> IdleReload]
  /\ cmLast = NoReload

ParkedManager ==
  /\ cm = ConfigManager_new("deep", EmptyConfig)
  /\ cmCall = [c \in Callers |-> IdleReload]
  /\ cmLast = NoReload

\* lines 156-193 for the caller's reload: validate, commit, emit, and finally
\* release the guard
ReloadEnds(c, manager, before, newConfig, validation) ==
  /\ cm' = [manager EXCEPT
              !.config = reload_commit(manager.config, newConfig, validation),
              !.isLoading = FALSE]
  /\ cmCall' = [cmCall EXCEPT ![c] = IdleReload]
  /\ cmLast' = [kind |-> IF validation \in {"false", "throws"} THEN "failed" ELSE "committed",
                caller |-> c,
                events |-> reload_events(manager.config, newConfig, validation),
                before |-> before,
                newConfig |-> newConfig,
                cause |-> IF validation \in {"false", "throws"} THEN "validate" ELSE "-",
                pre |-> <<>>]

\* reload(), lines 109-135: a no-op under the guard; otherwise the files are
\* found and the first loadFile is awaited (with no file, reload runs through)
CM_reload(c) ==
  /\ cmCall[c].pc = "idle"
  /\ IF reload_guard(cm.isLoading)
       THEN /\ cmLast' = [NoReload EXCEPT !.kind = "noop", !.caller = c,
                                          !.before = cm.config,
                                          !.pre = <<cm, cmCall>>]
            /\ UNCHANGED <<cm, cmCall>>
       ELSE \E found \in FileLists :
              LET queue == SelectSeq(found, LAMBDA f : ~f.isEnvFile)
                           \o SelectSeq(found, LAMBDA f : f.isEnvFile)
                  manager == [cm EXCEPT !.isLoading = TRUE, !.files = found]
              IN IF queue = <<>>
                   THEN \E validation \in Validations :
                          ReloadEnds(c, manager, cm.config, cm.options.defaults, validation)
                   ELSE /\ cm' = manager
                        /\ cmCall' = [cmCall EXCEPT ![c] =
                             [pc |-> "loading", queue |-> queue, index |-> 1,
                              newConfig |-> cm.options.defaults, before |-> cm.config]]
                        /\ cmLast' = NoReload
  /\ UNCHANGED notManager

\* lines 135-160 (143-160 for an environment file): the awaited loadFile
\* resolved; the content is parsed, recorded and merged, then the next file is
\* awaited or reload runs to its end
CM_fileLoaded(c) ==
  /\ cmCall[c].pc = "loading"
  /\ LET call == cmCall[c]
         file == call.queue[call.index]
     IN \E content \in Contents(file) :
          LET parsed == parseConfigContent(cm.options, content)
              files == [i \in DOMAIN cm.files |->
                          IF cm.files[i].path = file.path
                            THEN [cm.files[i] EXCEPT !.loaded = TRUE, !.parsed = parsed]
                            ELSE cm.files[i]]
              manager == [cm EXCEPT
                            !.files = files,
                            !.fileContents = Spread(@, (file.path :> parsed))]
              newConfig == IF ~file.isEnvFile \/ file.environment = cm.options.env
                             THEN mergeConfig(cm.options.mergeStrategy, call.newConfig, parsed)
                             ELSE call.newConfig
          IN IF call.index < Len(call.queue)
               THEN /\ cm' = manager
                    /\ cmCall' = [cmCall EXCEPT ![c].index = call.index + 1,
                                                ![c].newConfig = newConfig]
                    /\ cmLast' = NoReload
               ELSE \E validation \in Validations :
                      ReloadEnds(c, manager, call.before, newConfig, validation)
  /\ UNCHANGED notManager

\* lines 188-193: the awaited loadFile rejected, or parsing its content threw
CM_fileFails(c) ==
  /\ cmCall[c].pc = "loading"
  /\ cm' = [cm EXCEPT !.isLoading = FALSE]
  /\ cmLast' = [kind |-> "failed", caller |-> c, events |-> <<"error">>,
                before |-> cmCall[c].before, newConfig |-> cmCall[c].newConfig,
                cause |-> "load", pre |-> <<>>]
  /\ cmCall' = [cmCall EXCEPT ![c] = IdleReload]
  /\ UNCHANGED notManager

\* callers whose reload() calls interleave at the awaits
NextManager ==
  \/ \E c \in Callers : CM_reload(c)
  \/ \E c \in Callers : CM_fileLoaded(c)
  \/ \E c \in Callers : CM_fileFails(c)

(***************************************************************************)
(* Cache: src/src/utils/cache.ts 4-102                                     *)
(* A Map is held as the sequence of its [key, val] pairs in insertion       *)
(* order, the order in which keys() iterates.                               *)
(***************************************************************************)
MapHas(m, k) == \E i \in 1..Len(m) : m[i].key = k
MapGet(m, k) == m[CHOOSE i \in 1..Len(m) : m[i].key = k].val
MapDelete(m, k) == SelectSeq(m, LAMBDA e : e.key # k)
\* Map.prototype.set: a key already present keeps its place
MapSet(m, k, x) ==
  IF MapHas(m, k)
    THEN [i \in 1..Len(m) |-> IF m[i].key = k THEN [key |-> k, val |-> x] ELSE m[i]]
    ELSE Append(m, [key |-> k, val |-> x])
MapKeys(m) == [i \in 1..Len(m) |-> m[i].key]

CacheKeys == {1, 2, 3}
LruKeys == {1, 2, 3, 4}
CacheValues == {"v1", "v2"}

\* constructor, lines 9-13
Cache_new(maxSize, ttl) == [cache |-> <<>>, maxSize |-> maxSize, ttl |-> ttl]

\* mutant: an entry expires as soon as its age reaches ttl
Cache_expired_early(c, entry, t) == t - entry.timestamp >= c.ttl

\* lines 26 and 66: Date.now() - entry.timestamp > this.ttl
Cache_expired(c, entry, t) == t - entry.timestamp > c.ttl

\* get, lines 18-37: the cache afterwards and what is returned
Cache_get(c, k, t) ==
  IF ~MapHas(c.cache, k)
    THEN [self |-> c, found |-> FALSE, value |-> "undefined"]
    ELSE LET entry == MapGet(c.cache, k)
         IN IF Cache_expired(c, entry, t)
              THEN [self |-> [c EXCEPT !.cache = MapDelete(@, k)],
                    found |-> FALSE, value |-> "undefined"]
              ELSE [self |-> [c EXCEPT !.cache = MapSet(MapDelete(@, k), k, entry)],
                    found |-> TRUE, value |-> entry.value]

\* set, lines 42-54
Cache_set(c, k, v, t) ==
  LET room == IF Len(c.cache) >= c.maxSize /\ c.cache # <<>>
                THEN MapDelete(c.cache, c.cache[1].key)
                ELSE c.cache
  IN [c EXCEPT !.cache = MapSet(room, k, [value |-> v, timestamp |-> t])]

\* has, lines 59-73
Cache_has(c, k, t) ==
  IF ~MapHas(c.cache, k)
    THEN [self |-> c, found |-> FALSE]
    ELSE IF Cache_expired(c, MapGet(c.cache, k), t)
           THEN [self |-> [c EXCEPT !.cache = MapDelete(@, k)], found |-> FALSE]
           ELSE [self |-> c, found |-> TRUE]

\* delete, lines 78-80, and clear, lines 85-87
Cache_delete(c, k) == [c EXCEPT !.cache = MapDelete(@, k)]
Cache_clear(c) == [c EXCEPT !.cache = <<>>]

NoCacheCall ==
  [op |-> "none", key |-> 0, found |-> FALSE, age |-> -1, before |-> <<>>,
   used |-> <<>>]

\* what a call leaves to observe: the keys in Map order and in order of use as
\* they were before it, and the age of the entry it looked at (-1: none held)
CacheCall(op, k, found) ==
  [op |-> op, key |-> k, found |-> found,
   age |-> IF MapHas(cache.cache, k) THEN now - MapGet(cache.cache, k).timestamp ELSE -1,
   before |-> MapKeys(cache.cache), used |-> cacheUse]

\* the order of use once the keys in gone have left and key k has been used
Used(order, gone, k) ==
  SelectSeq(order, LAMBDA x : x \notin gone /\ x # k) \o (IF k \in gone THEN <<>> ELSE <<k>>)

KeySet(m) == {m[i].key : i \in 1..Len(m)}

InitCache ==
  /\ \E maxSize \in 1..MaxSize, ttl \in {1, MaxTime} : cache = Cache_new(maxSize, ttl)
  /\ cacheUse = <<>>
  /\ cacheLast = NoCacheCall

\* a cache whose entries cannot expire within the time modelled
InitCacheLru ==
  /\ \E maxSize \in 1..(MaxSize + 1) : cache = Cache_new(maxSize, MaxTime)
  /\ cacheUse = <<>>
  /\ cacheLast = NoCacheCall

ParkedCache ==
  /\ cache = Cache_new(1, 1)
  /\ cacheUse = <<>>
  /\ cacheLast = NoCacheCall

Cache_tick ==
  /\ now < MaxTime
  /\ now' = now + 1
  /\ UNCHANGED <<notCache, cacheOwn>>

CacheGet(k) ==
  /\ LET r == Cache_get(cache, k, now)
     IN /\ cache' = r.self
        /\ cacheLast' = CacheCall("get", k, r.found)
        /\ cacheUse' = IF r.found THEN Used(cacheUse, {}, k)
                       ELSE Used(cacheUse, {k}, k)
  /\ UNCHANGED <<now, notCache>>

CacheSet(k, v) ==
  /\ cache' = Cache_set(cache, k, v, now)
  /\ cacheLast' = CacheCall("set", k, MapHas(cache.cache, k))
  /\ cacheUse' = Used(cacheUse, KeySet(cache.cache) \ KeySet(cache'.cache), k)
  /\ UNCHANGED <<now, notCache>>

CacheHas(k) ==
  /\ LET r == Cache_has(cache, k, now)
     IN /\ cache' = r.self
        /\ cacheLast' = CacheCall("has", k, r.found)
        /\ cacheUse' = IF r.found \/ ~MapHas(cache.cache, k) THEN cacheUse
                       ELSE Used(cacheUse, {k}, k)
  /\ UNCHANGED <<now, notCache>>

CacheDelete(k) ==
  /\ cache' = Cache_delete(cache, k)
  /\ cacheLast' = CacheCall("delete", k, MapHas(cache.cache, k))
  /\ cacheUse' = Used(cacheUse, {k}, k)
  /\ UNCHANGED <<now, notCache>>

CacheClear ==
  /\ cache' = Cache_clear(cache)
  /\ cacheLast' = CacheCall("clear", 0, FALSE)
  /\ cacheUse' = <<>>
  /\ UNCHANGED <<now, notCache>>

NextCache ==
  \/ Cache_tick
  \/ \E k \in CacheKeys : CacheGet(k)
  \/ \E k \in CacheKeys, v \in CacheValues : CacheSet(k, v)
  \/ \E k \in CacheKeys : CacheHas(k)
  \/ \E k \in CacheKeys : CacheDelete(k)
  \/ CacheClear

\* get and set calls alone
NextCacheLru ==
  \/ \E k \in LruKeys : CacheGet(k)
  \/ \E k \in LruKeys, v \in CacheValues : CacheSet(k, v)

(***************************************************************************)
(* EnhancedCache: src/unnamed/part_005 33-278                              *)
(* Values are strings, held as the sequences of their characters.  The      *)
(* statistics an entry and the cache carry (accessCount, lastAccessed,      *)
(* hits, misses) are written by get and clear and read by getStats and      *)
(* getMostAccessed only; they are left out.  onEvict is the option's        *)
(* presence, and the calls made to it are what an operation reports.        *)
(***************************************************************************)
EcKeys == {"k1", "k2", "k3"}
EcValues == {<<"a">>, <<"a", "b">>, <<"a", "b", "c">>}
EcMemories == {4}

\* estimateSize, lines 241-243, for a string: two bytes for each character
estimateSize(value) == Len(value) * 2

\* constructor, lines 43-49
EnhancedCache_new(maxSize, ttl, maxMemory, onEvict) ==
  [cache |-> <<>>, maxSize |-> maxSize, ttl |-> ttl, maxMemory |-> maxMemory,
   currentMemory |-> 0, onEvict |-> onEvict]

\* mutant: delete forgets to give back the memory of the entry it removes
EnhancedCache_delete_keepsMemory(c, k) ==
  IF MapHas(c.cache, k)
    THEN [self |-> [c EXCEPT !.cache = MapDelete(@, k)],
          calls |-> IF c.onEvict THEN <<[key |-> k, entry |-> MapGet(c.cache, k)]>> ELSE <<>>,
          result |-> TRUE]
    ELSE [self |-> c, calls |-> <<>>, result |-> FALSE]

\* delete, lines 137-146: the cache afterwards, the calls made to onEvict, the
\* value returned
EnhancedCache_delete(c, k) ==
  IF MapHas(c.cache, k)
    THEN LET entry == MapGet(c.cache, k)
         IN [self |-> [c EXCEPT !.currentMemory = @ - entry.size,
                                !.cache = MapDelete(@, k)],
             calls |-> IF c.onEvict THEN <<[key |-> k, entry |-> entry]>> ELSE <<>>,
             result |-> TRUE]
    ELSE [self |-> c, calls |-> <<>>, result |-> FALSE]

\* one operation after another: the calls to onEvict add up
Then(r, next) == [next EXCEPT !.calls = r.calls \o @]

\* evictLeastRecentlyUsed, lines 231-236
evictLeastRecentlyUsed(c) ==
  IF c.cache = <<>>
    THEN [self |-> c, calls |-> <<>>, result |-> FALSE]
    ELSE EnhancedCache_delete(c, c.cache[1].key)

\* evictIfNeeded, lines 218-220: the loop on the memory limit
RECURSIVE evictForMemory(_, _)
evictForMemory(r, newItemSize) ==
  IF r.self.currentMemory + newItemSize > r.self.maxMemory /\ Len(r.self.cache) > 0
    THEN evictForMemory(Then(r, evictLeastRecentlyUsed(r.self)), newItemSize)
    ELSE r

\* mutant: the size loop lets the cache fill before it evicts
RECURSIVE evictForSize_late(_)
evictForSize_late(r) ==
  IF Len(r.self.cache) > r.self.maxSize
    THEN evictForSize_late(Then(r, evictLeastRecentlyUsed(r.self)))
    ELSE r

\* evictIfNeeded, lines 223-225: the loop on the size limit
RECURSIVE evictForSize(_)
evictForSize(r) ==
  IF Len(r.self.cache) >= r.self.maxSize
    THEN evictForSize(Then(r, evictLeastRecentlyUsed(r.self)))
    ELSE r

\* evictIfNeeded, lines 216-226
evictIfNeeded(c, newItemSize) ==
  evictForSize(evictForMemory([self |-> c, calls |-> <<>>, result |-> FALSE], newItemSize))

\* set, lines 84-113
EnhancedCache_set(c, k, value, t) ==
  LET size == estimateSize(value)
      cleared == IF MapHas(c.cache, k)
                   THEN [c EXCEPT !.currentMemory = @ - MapGet(c.cache, k).size,
                                  !.cache = MapDelete(@, k)]
                   ELSE c
      r == evictIfNeeded(cleared, size)
      entry == [value |-> value, timestamp |-> t, size |-> size]
  IN IF size > c.maxMemory
       THEN [self |-> c, calls |-> <<>>, result |-> FALSE]
       ELSE [r EXCEPT !.self = [r.self EXCEPT !.cache = MapSet(@, k, entry),
                                              !.currentMemory = @ + size],
                      !.result = TRUE]

\* get, lines 54-79
EnhancedCache_get(c, k, t) ==
  IF ~MapHas(c.cache, k)
    THEN [self |-> c, calls |-> <<>>, result |-> FALSE]
    ELSE LET entry == MapGet(c.cache, k)
         IN IF t - entry.timestamp > c.ttl
              THEN [EnhancedCache_delete(c, k) EXCEPT !.result = FALSE]
              ELSE [self |-> [c EXCEPT !.cache = MapSet(MapDelete(@, k), k, entry)],
                    calls |-> <<>>, result |-> TRUE]

\* has, lines 117-131
EnhancedCache_has(c, k, t) ==
  IF ~MapHas(c.cache, k)
    THEN [self |-> c, calls |-> <<>>, result |-> FALSE]
    ELSE IF t - MapGet(c.cache, k).timestamp > c.ttl
           THEN [EnhancedCache_delete(c, k) EXCEPT !.result = FALSE]
           ELSE [self |-> c, calls |-> <<>>, result |-> TRUE]

\* mutant: clear() empties the cache without a word to onEvict
EnhancedCache_clear_silent(c) ==
  [self |-> [c EXCEPT !.cache = <<>>, !.currentMemory = 0],
   calls |-> <<>>, result |-> TRUE]

\* clear, lines 151-161
EnhancedCache_clear(c) ==
  [self |-> [c EXCEPT !.cache = <<>>, !.currentMemory = 0],
   calls |-> IF c.onEvict
               THEN [i \in 1..Len(c.cache) |-> [key |-> c.cache[i].key, entry |-> c.cache[i].val]]
               ELSE <<>>,
   result |-> TRUE]

\* cleanup, lines 199-211: the entries are visited in the Map's order
RECURSIVE cleanupFrom(_, _, _)
cleanupFrom(r, todo, t) ==
  IF todo = <<>>
    THEN r
    ELSE cleanupFrom(IF t - Head(todo).val.timestamp > r.self.ttl
                       THEN Then(r, EnhancedCache_delete(r.self, Head(todo).key))
                       ELSE r,
                     Tail(todo), t)

EnhancedCache_cleanup(c, t) ==
  cleanupFrom([self |-> c, calls |-> <<>>, result |-> FALSE], c.cache, t)

\* getStats, lines 180-194: the fields read from the cache's own state
getStats(c) ==
  [size |-> Len(c.cache), maxSize |-> c.maxSize, memoryUsage |-> c.currentMemory,
   maxMemory |-> c.maxMemory, keys |-> MapKeys(c.cache)]

NoEcCall ==
  [op |-> "none", key |-> "-", value |-> <<>>, before |-> <<>>, used |-> <<>>,
   calls |-> <<>>]

InitEnhanced ==
  /\ \E maxSize \in 1..MaxSize, ttl \in {1, MaxTime}, maxMemory \in EcMemories,
        onEvict \in BOOLEAN :
       ec = EnhancedCache_new(maxSize, ttl, maxMemory, onEvict)
  /\ ecUse = <<>>
  /\ ecLast = NoEcCall

ParkedEnhanced ==
  /\ ec = EnhancedCache_new(1, 1, 4, FALSE)
  /\ ecUse = <<>>
  /\ ecLast = NoEcCall

\* a call ends: the cache it leaves, what it leaves to observe, and the order
\* of use of the keys still held (touched: the call read or wrote key k)
EcEnds(op, k, value, r, touched) ==
  /\ ec' = r.self
  /\ ecLast' = [op |-> op, key |-> k, value |-> value, before |-> ec.cache,
                used |-> ecUse, calls |-> r.calls]
  /\ ecUse' = LET kept == SelectSeq(ecUse, LAMBDA x : MapHas(r.self.cache, x))
              IN IF touched THEN Append(SelectSeq(kept, LAMBDA x : x # k), k) ELSE kept

EC_tick ==
  /\ now < MaxTime
  /\ now' = now + 1
  /\ UNCHANGED <<notEnhanced, ecOwn>>

EC_set(k, value) ==
  /\ LET r == EnhancedCache_set(ec, k, value, now)
     IN EcEnds("set", k, value, r, r.result)
  /\ UNCHANGED <<now, notEnhanced>>

EC_get(k) ==
  /\ LET r == EnhancedCache_get(ec, k, now)
     IN EcEnds("get", k, <<>>, r, r.result)
  /\ UNCHANGED <<now, notEnhanced>>

EC_has(k) ==
  /\ EcEnds("has", k, <<>>, EnhancedCache_has(ec, k, now), FALSE)
  /\ UNCHANGED <<now, notEnhanced>>

EC_delete(k) ==
  /\ EcEnds("delete", k, <<>>, EnhancedCache_delete(ec, k), FALSE)
  /\ UNCHANGED <<now, notEnhanced>>

EC_cleanup ==
  /\ EcEnds("cleanup", "-", <<>>, EnhancedCache_cleanup(ec, now), FALSE)
  /\ UNCHANGED <<now, notEnhanced>>

EC_clear ==
  /\ EcEnds("clear", "-", <<>>, EnhancedCache_clear(ec), FALSE)
  /\ UNCHANGED <<now, notEnhanced>>

NextEnhanced ==
  \/ EC_tick
  \/ \E k \in EcKeys, value \in EcValues : EC_set(k, value)
  \/ \E k \in EcKeys : EC_get(k)
  \/ \E k \in EcKeys : EC_has(k)
  \/ \E k \in EcKeys : EC_delete(k)
  \/ EC_cleanup
  \/ EC_clear

(***************************************************************************)
(* SnapshotManager: src/unnamed/part_003 (the module utils/snapshot)        *)
(* A configuration given to a standalone manager is one object, held as     *)
(* the sequence of its [k, v] properties in the order of its keys; a value   *)
(* is a number or an array of numbers, numbers being held as their          *)
(* numerals.  cloneDeep (structuredClone) keeps values and key order.        *)
(* A snapshot's description plays no part and is left out.                   *)
(***************************************************************************)
Number(n) == [t |-> "number", n |-> n, items |-> <<>>]
Array(items) == [t |-> "array", n |-> "-", items |-> items]

SnapConfigs ==
  {<<[k |-> "a", v |-> Number("1")], [k |-> "b", v |-> Number("2")]>>,
   <<[k |-> "b", v |-> Number("2")], [k |-> "a", v |-> Number("1")]>>,
   <<[k |-> "a", v |-> Number("1")]>>,
   <<[k |-> "l", v |-> Array(<<"1", "2">>)]>>,
   <<[k |-> "l", v |-> Array(<<"2", "1">>)]>>}

SnapIds == {"s1", "s2", "s3"}

\* the text pieces between which sep is put
RECURSIVE Join(_, _)
Join(pieces, sep) ==
  IF pieces = <<>> THEN <<>>
  ELSE IF Len(pieces) = 1 THEN Head(pieces)
  ELSE Head(pieces) \o sep \o Join(Tail(pieces), sep)

\* JSON.stringify of a value and of an object, as the sequence of its tokens:
\* the properties are written in the order of the object's keys
stringifyValue(v) ==
  IF v.t = "number" THEN <<v.n>>
  ELSE <<"[">> \o Join([i \in 1..Len(v.items) |-> <<v.items[i]>>], <<",">>) \o <<"]">>

JSON_stringify(config) ==
  <<"{">>
  \o Join([i \in 1..Len(config) |-> <<config[i].k, ":">> \o stringifyValue(config[i].v)], <<",">>)
  \o <<"}">>

\* constructor, lines 22-26
SnapshotManager_new(maxSnapshots) ==
  [snapshots |-> <<>>, maxSnapshots |-> maxSnapshots, history |-> <<>>]

\* create, lines 31-51, given cloneDeep(config); ids are not empty, so an id
\* taken from the history is truthy
SnapshotManager_create(s, id, clone, t) ==
  LET full == Len(s.snapshots) >= s.maxSnapshots
      shifted == IF full /\ s.history # <<>> THEN Tail(s.history) ELSE s.history
      kept == IF full /\ s.history # <<>>
                THEN MapDelete(s.snapshots, Head(s.history))
                ELSE s.snapshots
      snapshot == [id |-> id, timestamp |-> t, config |-> clone]
  IN [s EXCEPT !.snapshots = MapSet(kept, id, snapshot),
               !.history = Append(shifted, id)]

\* delete, lines 70-76: splice takes the first occurrence out of the history
SnapshotManager_delete(s, id) ==
  LET at == {i \in 1..Len(s.history) : s.history[i] = id}
      index == IF at = {} THEN 0 ELSE CHOOSE i \in at : \A j \in at : i <= j
  IN [s EXCEPT !.history = IF index = 0 THEN @
                           ELSE SubSeq(@, 1, index - 1) \o SubSeq(@, index + 1, Len(@)),
               !.snapshots = MapDelete(@, id)]

\* clear, lines 123-126
SnapshotManager_clear(s) == [s EXCEPT !.snapshots = <<>>, !.history = <<>>]

\* list, lines 81-83
SnapshotManager_list(s) == s.history

\* getAll, lines 88-92
SnapshotManager_getAll(s) ==
  LET found == SelectSeq(s.history, LAMBDA id : MapHas(s.snapshots, id))
  IN [i \in 1..Len(found) |-> MapGet(s.snapshots, found[i])]

\* getLatest, lines 97-100: a snapshot or nothing, as a set of at most one
SnapshotManager_getLatest(s) ==
  IF s.history = <<>> \/ ~MapHas(s.snapshots, s.history[Len(s.history)])
    THEN {}
    ELSE {MapGet(s.snapshots, s.history[Len(s.history)])}

\* compare, lines 138-166: snapshot1 and snapshot2 as sets of at most one
SnapshotManager_compare(s, id1, id2) ==
  LET snapshot1 == IF MapHas(s.snapshots, id1) THEN {MapGet(s.snapshots, id1)} ELSE {}
      snapshot2 == IF MapHas(s.snapshots, id2) THEN {MapGet(s.snapshots, id2)} ELSE {}
  IN [snapshot1 |-> snapshot1, snapshot2 |-> snapshot2,
      identical |-> /\ snapshot1 # {}
                    /\ snapshot2 # {}
                    /\ \A x \in snapshot1, y \in snapshot2 :
                          JSON_stringify(x.config) = JSON_stringify(y.config)]

NoSmCall ==
  [op |-> "none", id |-> "-", id2 |-> "-", existed |-> FALSE, history |-> <<>>,
   result |-> [snapshot1 |-> {}, snapshot2 |-> {}, identical |-> FALSE]]

InitSnapshots ==
  /\ \E maxSnapshots \in 0..MaxSnapshots : sm = SnapshotManager_new(maxSnapshots)
  /\ smLog = [ids |-> <<>>, kept |-> TRUE]
  /\ smLast = NoSmCall

ParkedSnapshots ==
  /\ sm = SnapshotManager_new(1)
  /\ smLog = [ids |-> <<>>, kept |-> TRUE]
  /\ smLast = NoSmCall

SM_create(id, config) ==
  /\ Len(smLog.ids) < MaxCreates
  /\ sm' = SnapshotManager_create(sm, id, config, now)
  /\ smLog' = [smLog EXCEPT !.ids = Append(@, id)]
  /\ smLast' = [NoSmCall EXCEPT !.op = "create", !.id = id,
                                !.existed = MapHas(sm.snapshots, id),
                                !.history = sm.history]
  /\ UNCHANGED notSnapshots

SM_delete(id) ==
  /\ sm' = SnapshotManager_delete(sm, id)
  /\ smLog' = [smLog EXCEPT !.kept = FALSE]
  /\ smLast' = [NoSmCall EXCEPT !.op = "delete", !.id = id,
                                !.existed = MapHas(sm.snapshots, id),
                                !.history = sm.history]
  /\ UNCHANGED notSnapshots

SM_clear ==
  /\ sm' = SnapshotManager_clear(sm)
  /\ smLog' = [smLog EXCEPT !.kept = FALSE]
  /\ smLast' = [NoSmCall EXCEPT !.op = "clear", !.history = sm.history]
  /\ UNCHANGED notSnapshots

SM_compare(id1, id2) ==
  /\ smLast' = [NoSmCall EXCEPT !.op = "compare", !.id = id1, !.id2 = id2,
                                !.history = sm.history,
                                !.result = SnapshotManager_compare(sm, id1, id2)]
  /\ UNCHANGED <<sm, smLog, notSnapshots>>

NextSnapshots ==
  \/ \E id \in SnapIds, config \in SnapConfigs : SM_create(id, config)
  \/ \E id \in SnapIds : SM_delete(id)
  \/ SM_clear
  \/ \E id1, id2 \in SnapIds : SM_compare(id1, id2)

(***************************************************************************)
(* ConfigManager.set / delete / snapshot / rollback and the snapshots a     *)
(* reload takes: src/src/core/config-manager.ts 156-187, 259-309, 516-550   *)
(* A configuration object lives in the heap under a reference; set and      *)
(* delete change the object this.config refers to in place, and a snapshot  *)
(* holds a reference of its own.  cloneDeep copies every level               *)
(* (structuredClone), so an object is one heap cell whatever its depth.      *)
(* Up to line 156 a reload works on objects of its own; what it does to the  *)
(* configuration and the snapshots is its last synchronous stretch, taken    *)
(* here as one step, under the deep merge strategy.                          *)
(***************************************************************************)
UserId(n) == [kind |-> "user", n |-> n]
\* `auto-${Date.now()}`, line 165
AutoId(t) == [kind |-> "auto", n |-> t]
UserIds == {UserId(1)}

SetPaths == {P_port}
SetValues == {1}
DeletePaths == {P_server}

\* a reference not in use
Fresh(h) == CHOOSE r \in 1..(Cardinality(DOMAIN h) + 1) : r \notin DOMAIN h

\* mutant: the object itself is handed on instead of a copy
cloneDeep_alias(h, r) == [heap |-> h, ref |-> r]

\* cloneDeep, cache.ts 128-149: a new object with the same content
cloneDeep(h, r) == [heap |-> h @@ (Fresh(h) :> h[r]), ref |-> Fresh(h)]

\* lodash.set(object, path, value), line 261: the path is made to lead to the
\* value, through objects that replace whatever scalar stood in the way
SetAt(config, p, value) ==
  LET kept == {q \in DOMAIN config : ~IsPrefix(p, q) /\ ~IsPrefix(q, p)}
  IN [q \in kept \cup {p} |-> IF q = p THEN value ELSE config[q]]

\* delete parent[lastKey], lines 289-296, when something is there
DeleteAt(config, p) == [q \in {q \in DOMAIN config : ~IsPrefix(p, q)} |-> config[q]]

\* the configurations a reload can reach line 156 with: the defaults, then
\* each file's parsed content merged in, lines 130-154
RECURSIVE MergedFrom(_, _, _)
MergedFrom(opts, queue, acc) ==
  IF queue = <<>>
    THEN {acc}
    ELSE UNION {MergedFrom(opts, Tail(queue),
                           mergeConfig(opts.mergeStrategy, acc, parseConfigContent(opts, content)))
                  : content \in Contents(Head(queue))}

\* the directory of this manager holds the base file and no other
ReloadConfigs(opts) == MergedFrom(opts, <<BaseFile>>, opts.defaults)

\* the objects still referred to, the live configuration first, each once
RECURSIVE Dedupe(_)
Dedupe(q) ==
  IF q = <<>> THEN <<>>
  ELSE <<Head(q)>> \o Dedupe(SelectSeq(Tail(q), LAMBDA x : x # Head(q)))

Reachable(manager) ==
  LET x == CHOOSE x \in manager.snapshotManager : TRUE
  IN Dedupe(<<manager.config>>
            \o (IF manager.snapshotManager = {} THEN <<>>
                ELSE [i \in 1..Len(x.snapshots) |-> x.snapshots[i].val.config]))

\* references are names only: unreachable objects are dropped and the others
\* are renamed 1, 2, ... in the order of Reachable
Collect(h, manager) ==
  LET order == Reachable(manager)
      name(r) == CHOOSE i \in 1..Len(order) : order[i] = r
  IN [heap |-> [i \in 1..Len(order) |-> h[order[i]]],
      manager |-> [manager EXCEPT
                     !.config = name(@),
                     !.snapshotManager =
                        {[x EXCEPT !.snapshots =
                            [i \in 1..Len(@) |-> [@[i] EXCEPT !.val.config = name(@)]]]
                           : x \in @}]]

\* changes: what rollback passed to emit('change', ...), if it emitted
NoRollbackCall ==
  [op |-> "none", id |-> UserId(0), ok |-> TRUE, before |-> EmptyConfig, changes |-> {}]

\* constructor, lines 36-93: the snapshot manager exists from the start only
\* with autoSnapshot; maxSnapshots is never 0 (line 56)
InitRollback ==
  /\ \E maxSnapshots \in 1..MaxSnapshots, autoSnapshot \in BOOLEAN, defaults \in Defaults :
       /\ cms = [config |-> 1,
                 snapshotManager |-> IF autoSnapshot
                                       THEN {SnapshotManager_new(maxSnapshots)}
                                       ELSE {},
                 options |-> [mergeStrategy |-> "deep", defaults |-> defaults,
                              env |-> "development", autoSnapshot |-> autoSnapshot,
                              maxSnapshots |-> maxSnapshots]]
       /\ heap = <<defaults>>
  /\ cmsStored = [base |-> <<>>, made |-> <<>>, creates |-> 0]
  /\ cmsLast = NoRollbackCall

ParkedRollback ==
  /\ cms = [config |-> 1, snapshotManager |-> {},
            options |-> [mergeStrategy |-> "deep", defaults |-> EmptyConfig,
                         env |-> "development", autoSnapshot |-> FALSE,
                         maxSnapshots |-> 1]]
  /\ heap = <<EmptyConfig>>
  /\ cmsStored = [base |-> <<>>, made |-> <<>>, creates |-> 0]
  /\ cmsLast = NoRollbackCall

\* the snapshot manager in use, made on demand as lines 517-519 do
ManagerOf(manager) ==
  IF manager.snapshotManager = {}
    THEN SnapshotManager_new(manager.options.maxSnapshots)
    ELSE CHOOSE x \in manager.snapshotManager : TRUE

\* the content held under each id of a snapshot manager
Held(h, x) ==
  [id \in KeySet(x.snapshots) |-> h[MapGet(x.snapshots, id).config]]

\* a call ends: unreachable objects are dropped
CmsEnds(h, manager, stored, last) ==
  /\ cms' = Collect(h, manager).manager
  /\ heap' = Collect(h, manager).heap
  /\ cmsStored' = [stored EXCEPT
                     !.made = [id \in DOMAIN @ \cap UNION {KeySet(x.snapshots) : x \in manager.snapshotManager}
                                 |-> @[id]]]
  /\ cmsLast' = last

CMS_tick ==
  /\ now < MaxSnapTime
  /\ now' = now + 1
  /\ UNCHANGED <<notRollback, cmsOwn>>

\* set(path, value), lines 259-274 (the 'change' event aside)
CMS_set(path, value) ==
  /\ CmsEnds([heap EXCEPT ![cms.config] = SetAt(@, path, value)], cms, cmsStored,
             [NoRollbackCall EXCEPT !.op = "set"])
  /\ UNCHANGED <<now, notRollback>>

\* delete(path), lines 286-309 (the 'change' event aside)
CMS_delete(path) ==
  /\ CmsEnds(IF NodeKind(heap[cms.config], path) # "absent"
               THEN [heap EXCEPT ![cms.config] = DeleteAt(@, path)]
               ELSE heap,
             cms, cmsStored,
             [NoRollbackCall EXCEPT !.op = "delete"])
  /\ UNCHANGED <<now, notRollback>>

\* snapshot(id), lines 516-521
CMS_snapshot(id) ==
  /\ cmsStored.creates < MaxStored
  /\ LET c == cloneDeep(heap, cms.config)
         x == SnapshotManager_create(ManagerOf(cms), id, c.ref, now)
     IN CmsEnds(c.heap, [cms EXCEPT !.snapshotManager = {x}],
                [base |-> (id :> heap[cms.config])
                            @@ [i \in DOMAIN cmsStored.base \cap KeySet(x.snapshots)
                                  |-> cmsStored.base[i]],
                 made |-> (id :> heap[cms.config]) @@ cmsStored.made,
                 creates |-> cmsStored.creates + 1],
                [NoRollbackCall EXCEPT !.op = "snapshot", !.id = id])
  /\ UNCHANGED <<now, notRollback>>

\* rollback(id), lines 526-550: it throws, or the configuration becomes a
\* copy of the snapshot's and 'change' is emitted if detectChanges found any
CMS_rollback(id) ==
  /\ IF cms.snapshotManager = {} \/ ~MapHas(ManagerOf(cms).snapshots, id)
       THEN CmsEnds(heap, cms, cmsStored,
                    [NoRollbackCall EXCEPT !.op = "rollback", !.id = id, !.ok = FALSE,
                                           !.before = heap[cms.config]])
       ELSE LET c == cloneDeep(heap, MapGet(ManagerOf(cms).snapshots, id).config)
            IN CmsEnds(c.heap, [cms EXCEPT !.config = c.ref], cmsStored,
                       [NoRollbackCall EXCEPT !.op = "rollback", !.id = id,
                                              !.before = heap[cms.config],
                                              !.changes = detectChanges(heap[cms.config],
                                                                        c.heap[c.ref])])
  /\ UNCHANGED <<now, notRollback>>

\* reload(), lines 156-187, with the merged configuration it reached: it is
\* validated, the configuration held is snapshotted if a snapshot manager
\* exists and the configuration has keys, and the new object is the one held
CMS_reload ==
  /\ \E newConfig \in ReloadConfigs(cms.options), validation \in Validations :
       IF validation \in {"false", "throws"}
         THEN CmsEnds(heap, cms, cmsStored,
                      [NoRollbackCall EXCEPT !.op = "reload", !.ok = FALSE])
         ELSE LET auto == cms.snapshotManager # {} /\ DOMAIN heap[cms.config] # {}
                  c == cloneDeep(heap, cms.config)
                  x == SnapshotManager_create(ManagerOf(cms), AutoId(now), c.ref, now)
                  h == IF auto THEN c.heap ELSE heap
                  manager == [cms EXCEPT
                                !.snapshotManager = IF auto THEN {x} ELSE @,
                                !.config = Fresh(h)]
              IN /\ auto => cmsStored.creates < MaxStored
                 /\ CmsEnds(h @@ (Fresh(h) :> newConfig), manager,
                            IF auto
                              THEN [cmsStored EXCEPT
                                      !.made = (AutoId(now) :> heap[cms.config]) @@ @,
                                      !.creates = @ + 1]
                              ELSE cmsStored,
                            [NoRollbackCall EXCEPT !.op = "reload"])
  /\ UNCHANGED <<now, notRollback>>

NextRollback ==
  \/ CMS_tick
  \/ \E path \in SetPaths, value \in SetValues : CMS_set(path, value)
  \/ \E path \in DeletePaths : CMS_delete(path)
  \/ \E id \in UserIds : CMS_snapshot(id)
  \/ \E id \in UserIds \cup {AutoId(t) : t \in 1..MaxSnapTime} : CMS_rollback(id)
  \/ CMS_reload

(***************************************************************************)
(* debounce (utils/cache.ts 107-123)                                       *)
(*                                                                         *)
(* debounce(fn, delay) returns a function closing over timeoutId.  Each    *)
(* call clears the timer timeoutId names, if any, and sets a new one for   *)
(* delay later; the timer's callback runs fn with that call's arguments    *)
(* and resets timeoutId to null.  The pending timers are kept as a set, as *)
(* the runtime keeps them, so that a timer the closure has lost track of   *)
(* would still fire.  A timer fires when the clock reaches its due time,   *)
(* before any call made at that same instant (the event loop runs its      *)
(* timers phase first).  fn returns without calling the debounced function *)
(* again, as the manager's () => this.reload() does.                       *)
(***************************************************************************)
MaxDelay == 2
MaxCalls == 3
DebounceArgs == {"a", "b"}

debounce_new(delay) ==
  [delay |-> delay, timeoutId |-> 0, timers |-> {}, nextId |-> 1]

\* clearTimeout(id)
clearTimeout(timers, id) == {timer \in timers : timer.id # id}

\* setTimeout(callback, delay) at time t; the callback closes over args
setTimeout(d, args, t) ==
  [id |-> d.nextId, due |-> t + d.delay, args |-> args]

debounced_keepsTimers(d, args, t) ==
  [d EXCEPT !.timers = d.timers \cup {setTimeout(d, args, t)},
            !.timeoutId = d.nextId,
            !.nextId = d.nextId + 1]

\* the returned function, lines 112-122
debounced(d, args, t) ==
  LET cleared == IF d.timeoutId # 0
                   THEN clearTimeout(d.timers, d.timeoutId)
                   ELSE d.timers
  IN [d EXCEPT !.timers = cleared \cup {setTimeout(d, args, t)},
               !.timeoutId = d.nextId,
               !.nextId = d.nextId + 1]

\* the timer's callback, lines 118-121, once fn has returned
timerCallback(d, timer) ==
  [d EXCEPT !.timers = d.timers \ {timer}, !.timeoutId = 0]

InitDebounce ==
  /\ \E delay \in 1..MaxDelay : db = debounce_new(delay)
  /\ dbCalls = <<>>
  /\ dbRuns = <<>>

ParkedDebounce ==
  /\ db = debounce_new(1)
  /\ dbCalls = <<>>
  /\ dbRuns = <<>>

\* a timer is due now
Due(d, t) == {timer \in d.timers : timer.due <= t}

\* time passes while no timer is due: up to MaxTime, and past it only towards
\* a timer that is still pending
DB_tick ==
  /\ now < MaxTime \/ db.timers # {}
  /\ Due(db, now) = {}
  /\ now' = now + 1
  /\ UNCHANGED <<notDebounce, dbOwn>>

\* the debounced function is called
DB_call(args) ==
  /\ Len(dbCalls) < MaxCalls
  /\ Due(db, now) = {}
  /\ db' = debounced(db, args, now)
  /\ dbCalls' = Append(dbCalls, [at |-> now, args |-> args])
  /\ UNCHANGED <<now, notDebounce, dbRuns>>

\* a due timer fires: fn.apply(this, args), then timeoutId = null
DB_fire ==
  /\ \E timer \in Due(db, now) :
       /\ db' = timerCallback(db, timer)
       /\ dbRuns' = Append(dbRuns, [at |-> now, args |-> timer.args, call |-> timer.id])
  /\ UNCHANGED <<now, notDebounce, dbCalls>>

NextDebounce ==
  \/ DB_tick
  \/ \E args \in DebounceArgs : DB_call(args)
  \/ DB_fire

(***************************************************************************)
(* ChangeDetector over arrays, and the 'change' records of ConfigManager   *)
(* (detectors/change-detector.ts, core/config-manager.ts 259-309, 526-550) *)
(*                                                                         *)
(* The configuration is one level deep: each key holds a number or an      *)
(* array of numbers.  deepDiff is the diff of the deep-diff package as     *)
(* line 15 calls it: a key on one side only is N or D, values of different *)
(* type or different numbers are E, and two arrays give an A difference,   *)
(* carrying an N or D item, for every index one of them lacks, and an E    *)
(* with the index in its path for every index at which they differ.        *)
(* A value that is absent reads undefined.  Array indexes start at 0.      *)
(***************************************************************************)
MaxItems == 2
DetectItems == {"1", "2"}
DetectKeys == {"list", "n"}
Absent == [t |-> "undefined", n |-> "-", items |-> <<>>]

DetectArrays == {Array(items) : items \in UNION {[1..len -> DetectItems] : len \in 0..MaxItems}}
DetectValues == [list |-> {Number("1")} \cup DetectArrays, n |-> {Number("1"), Number("2")}]
DetectConfigs ==
  UNION {{config \in [keys -> UNION {DetectValues[k] : k \in DetectKeys}] :
            \A k \in keys : config[k] \in DetectValues[k]} : keys \in SUBSET DetectKeys}

\* the decimal text of an array index, by the position of the item
IndexText == <<"0", "1", "2", "3">>

Key(text) == [num |-> FALSE, text |-> text]
Index(i) == [num |-> TRUE, text |-> IndexText[i]]
Identifiers == DetectKeys

\* the differences of two values found at path
deepDiffAt(path, lhs, rhs) ==
  IF lhs.t # rhs.t
    THEN {[kind |-> "E", path |-> path, lhs |-> lhs, rhs |-> rhs]}
  ELSE IF lhs.t = "number"
    THEN IF lhs.n # rhs.n
           THEN {[kind |-> "E", path |-> path, lhs |-> lhs, rhs |-> rhs]}
           ELSE {}
  ELSE {[kind |-> "A", path |-> path, index |-> IndexText[i],
         item |-> [kind |-> "D", lhs |-> Number(lhs.items[i]), rhs |-> Absent]]
          : i \in (Len(rhs.items) + 1)..Len(lhs.items)}
       \cup
       {[kind |-> "A", path |-> path, index |-> IndexText[i],
         item |-> [kind |-> "N", lhs |-> Absent, rhs |-> Number(rhs.items[i])]]
          : i \in (Len(lhs.items) + 1)..Len(rhs.items)}
       \cup
       {[kind |-> "E", path |-> Append(path, Index(i)),
         lhs |-> Number(lhs.items[i]), rhs |-> Number(rhs.items[i])]
          : i \in {j \in 1..Min(Len(lhs.items), Len(rhs.items)) : lhs.items[j] # rhs.items[j]}}

\* diff(oldConfig, newConfig), line 15
deepDiff(oldConfig, newConfig) ==
  {[kind |-> "D", path |-> <<Key(k)>>, lhs |-> oldConfig[k], rhs |-> Absent]
     : k \in (DOMAIN oldConfig) \ (DOMAIN newConfig)}
  \cup
  {[kind |-> "N", path |-> <<Key(k)>>, lhs |-> Absent, rhs |-> newConfig[k]]
     : k \in (DOMAIN newConfig) \ (DOMAIN oldConfig)}
  \cup
  UNION {deepDiffAt(<<Key(k)>>, oldConfig[k], newConfig[k])
           : k \in (DOMAIN oldConfig) \cap (DOMAIN newConfig)}

\* buildPath, lines 80-100: the text of a path, as its pieces
RECURSIVE buildPathFrom(_, _)
buildPathFrom(pathArray, index) ==
  IF index > Len(pathArray) THEN <<>>
  ELSE (IF pathArray[index].num THEN <<"[", pathArray[index].text, "]">>
        ELSE IF index = 1 THEN <<pathArray[index].text>>
        ELSE IF pathArray[index].text \notin Identifiers
          THEN <<"[\"", pathArray[index].text, "\"]">>
        ELSE <<".", pathArray[index].text>>)
       \o buildPathFrom(pathArray, index + 1)

buildPath(pathArray) == buildPathFrom(pathArray, 1)

\* the record pushed for one difference, lines 22-71 (file, environment and
\* timestamp left out); a property that is not written reads undefined
changeOf(difference) ==
  LET path == buildPath(difference.path)
  IN CASE difference.kind = "N" ->
            [type |-> "added", path |-> path, oldValue |-> Absent, newValue |-> difference.rhs]
       [] difference.kind = "D" ->
            [type |-> "deleted", path |-> path, oldValue |-> difference.lhs, newValue |-> Absent]
       [] difference.kind = "E" ->
            [type |-> "modified", path |-> path,
             oldValue |-> difference.lhs, newValue |-> difference.rhs]
       [] difference.kind = "A" ->
            [type |-> "modified", path |-> path \o <<"[", difference.index, "]">>,
             oldValue |-> difference.item.lhs, newValue |-> difference.item.rhs]

\* detectChanges, lines 8-75
ChangeDetector_detectChanges(oldConfig, newConfig) ==
  {changeOf(difference) : difference \in deepDiff(oldConfig, newConfig)}

\* this.get(path) for a path of one key
Get(config, key) == IF key \in DOMAIN config THEN config[key] ELSE Absent

\* ConfigManager.set, lines 259-274: the configuration and the record emitted
ConfigManager_set(config, key, value) ==
  [config |-> [k \in (DOMAIN config) \cup {key} |-> IF k = key THEN value ELSE config[k]],
   emitted |-> {[type |-> IF Get(config, key) = Absent THEN "added" ELSE "modified",
                 path |-> <<key>>,
                 oldValue |-> Get(config, key),
                 newValue |-> value]}]

\* ConfigManager.delete, lines 286-309
ConfigManager_delete(config, key) ==
  IF Get(config, key) # Absent
    THEN [config |-> [k \in (DOMAIN config) \ {key} |-> config[k]],
          emitted |-> {[type |-> "deleted", path |-> <<key>>,
                        oldValue |-> Get(config, key), newValue |-> Absent]}]
    ELSE [config |-> config, emitted |-> {}]

NoDetectorCall == [op |-> "none", before |-> EmptyObject, emitted |-> {}]

InitDetector ==
  /\ dc \in DetectConfigs
  /\ dcLast = NoDetectorCall

ParkedDetector ==
  /\ dc = EmptyObject
  /\ dcLast = NoDetectorCall

\* rollback, lines 537-549 (and reload, lines 172-186): the configuration is
\* replaced and the differences detected are emitted
DC_replace(newConfig) ==
  /\ dc' = newConfig
  /\ dcLast' = [op |-> "replace", before |-> dc,
                emitted |-> ChangeDetector_detectChanges(dc, newConfig)]
  /\ UNCHANGED notDetector

DC_set(key, value) ==
  /\ LET r == ConfigManager_set(dc, key, value)
     IN /\ dc' = r.config
        /\ dcLast' = [op |-> "set", before |-> dc, emitted |-> r.emitted]
  /\ UNCHANGED notDetector

DC_delete(key) ==
  /\ LET r == ConfigManager_delete(dc, key)
     IN /\ dc' = r.config
        /\ dcLast' = [op |-> "delete", before |-> dc, emitted |-> r.emitted]
  /\ UNCHANGED notDetector

NextDetector ==
  \/ \E newConfig \in DetectConfigs : DC_replace(newConfig)
  \/ \E key \in DetectKeys : \E value \in DetectValues[key] : DC_set(key, value)
  \/ \E key \in DetectKeys : DC_delete(key)

(***************************************************************************)
(* GracefulDegradation (utils/cache.ts 344-389)                            *)
(*                                                                         *)
(* One caller runs executeWithFallback calls one after another; fallbacks  *)
(* and health checks are registered at any moment, also while a call is    *)
(* suspended on its health check or its operation.  A fallback either      *)
(* returns a value or throws; a health check resolves true or false, or    *)
(* rejects; an operation resolves or rejects.                              *)
(***************************************************************************)
Services == {"s1", "s2"}
Fallbacks == {"returns", "throws"}

GracefulDegradation_new ==
  [fallbackStrategies |-> [service \in Services |-> "none"],
   healthChecks |-> [service \in Services |-> FALSE]]

\* the error thrown at line 375
Unhealthy(service) == <<"Service", service, "is", "unhealthy">>

\* mutant: the catch block rethrows without consulting the fallback
executeWithFallback_catch_rethrows(g, call, error) ==
  [calls |-> call.calls, result |-> [ok |-> FALSE, value |-> error]]

\* the catch block, lines 379-387: the fallback's outcome, or the error again
executeWithFallback_catch(g, call, error) ==
  LET fallback == g.fallbackStrategies[call.service]
  IN IF fallback # "none"
       THEN [calls |-> [call.calls EXCEPT !.fallback = @ + 1],
             result |-> IF fallback = "returns"
                          THEN [ok |-> TRUE, value |-> <<"fallback", "result">>]
                          ELSE [ok |-> FALSE, value |-> <<"fallback", "failure">>]]
       ELSE [calls |-> call.calls, result |-> [ok |-> FALSE, value |-> error]]

NoCalls == [health |-> 0, operation |-> 0, fallback |-> 0]
GdIdle == [pc |-> "idle", service |-> "-", health |-> "none", calls |-> NoCalls]
NoGdCall ==
  [service |-> "-", health |-> "none", operation |-> "none", fallback |-> "none",
   calls |-> NoCalls, result |-> [ok |-> TRUE, value |-> <<>>]]

InitDegradation ==
  /\ gd = GracefulDegradation_new
  /\ gdCall = GdIdle
  /\ gdLast = NoGdCall

\* the call concludes
GdEnds(call, operation, r) ==
  /\ gdLast' = [service |-> call.service, health |-> call.health,
                operation |-> operation,
                fallback |-> gd.fallbackStrategies[call.service],
                calls |-> r.calls, result |-> r.result]
  /\ gdCall' = GdIdle

GD_registerFallback(service, fallback) ==
  /\ gd' = [gd EXCEPT !.fallbackStrategies[service] = fallback]
  /\ UNCHANGED <<notDegradation, gdCall, gdLast>>

GD_registerHealthCheck(service) ==
  /\ gd' = [gd EXCEPT !.healthChecks[service] = TRUE]
  /\ UNCHANGED <<notDegradation, gdCall, gdLast>>

\* lines 370-377, up to the first await: the health check is invoked if there
\* is one, else the operation
GD_executeWithFallback(service) ==
  /\ gdCall.pc = "idle"
  /\ gdCall' = IF gd.healthChecks[service]
                 THEN [pc |-> "health", service |-> service, health |-> "pending",
                       calls |-> [NoCalls EXCEPT !.health = 1]]
                 ELSE [pc |-> "operation", service |-> service, health |-> "none",
                       calls |-> [NoCalls EXCEPT !.operation = 1]]
  /\ UNCHANGED <<notDegradation, gd, gdLast>>

\* await healthCheck() resumes: healthy invokes the operation, unhealthy throws
GD_healthResolves(healthy) ==
  /\ gdCall.pc = "health"
  /\ IF healthy
       THEN /\ gdCall' = [gdCall EXCEPT !.pc = "operation", !.health = "healthy",
                                        !.calls.operation = @ + 1]
            /\ UNCHANGED gdLast
       ELSE LET call == [gdCall EXCEPT !.health = "unhealthy"]
            IN GdEnds(call, "none",
                      executeWithFallback_catch(gd, call, Unhealthy(call.service)))
  /\ UNCHANGED <<notDegradation, gd>>

\* await healthCheck() throws what the health check rejected with
GD_healthRejects ==
  /\ gdCall.pc = "health"
  /\ LET call == [gdCall EXCEPT !.health = "rejects"]
     IN GdEnds(call, "none", executeWithFallback_catch(gd, call, <<"health", "failure">>))
  /\ UNCHANGED <<notDegradation, gd>>

\* return await operation()
GD_operationResolves ==
  /\ gdCall.pc = "operation"
  /\ GdEnds(gdCall, "resolves", [calls |-> gdCall.calls,
                                 result |-> [ok |-> TRUE, value |-> <<"operation", "result">>]])
  /\ UNCHANGED <<notDegradation, gd>>

GD_operationRejects ==
  /\ gdCall.pc = "operation"
  /\ GdEnds(gdCall, "rejects", executeWithFallback_catch(gd, gdCall, <<"operation", "failure">>))
  /\ UNCHANGED <<notDegradation, gd>>

NextDegradation ==
  \/ \E service \in Services : \E fallback \in Fallbacks : GD_registerFallback(service, fallback)
  \/ \E service \in Services : GD_registerHealthCheck(service)
  \/ \E service \in Services : GD_executeWithFallback(service)
  \/ \E healthy \in BOOLEAN : GD_healthResolves(healthy)
  \/ GD_healthRejects
  \/ GD_operationResolves
  \/ GD_operationRejects

(***************************************************************************)
(* object-utils: setPath, getPath, deletePath, mergeDeep                   *)
(*                                                                         *)
(* Objects live in memory and are referred to: memory is a sequence of     *)
(* objects, Object(r) the reference to the r-th, and Object(0) the         *)
(* built-in prototype every object literal starts with.  An object has its *)
(* own properties, a prototype and the mark of an array; an array's own    *)
(* properties are its indexes.  Reading a key an object does not own goes  *)
(* to the prototype, where "constructor" is a function and "__proto__" the *)
(* prototype itself, and assigning "__proto__" on an object that does not  *)
(* own such a key replaces its prototype.  A path is the array of its keys *)
(* (what split('.') makes of a dotted string).                             *)
(***************************************************************************)
MaxPath == 2
Function == [t |-> "function", v |-> 0]
Leaf(n) == [t |-> "number", v |-> n]
EmptyString == [t |-> "string", v |-> 0]
False == [t |-> "boolean", v |-> 0]
Tree(array, props) == [t |-> "tree", v |-> [array |-> array, props |-> props]]

ReservedKeys == {"__proto__", "constructor", "prototype"}
PlainKeys == {"a", "b", "0"}
\* the order in which the own keys of an object are visited
KeyOrder == <<"0", "a", "b", "undefined", "__proto__", "constructor", "prototype">>

\* the own keys of an object, in the order they are visited
KeysOf(props) == SelectSeq(KeyOrder, LAMBDA key : key \in DOMAIN props)

Alloc(h, object) == [heap |-> Append(h, object), value |-> Object(Len(h) + 1)]
NewObject(props) == [array |-> FALSE, proto |-> 0, props |-> props]

\* typeof x === 'object'
TypeofObject(x) == x.t \in {"object", "null"}

OwnProps(h, x) == IF x.t = "object" /\ x.v # 0 THEN h[x.v].props ELSE EmptyObject

\* { ...x }
SpreadOf(h, x) == NewObject(OwnProps(h, x))

\* x[key]
RECURSIVE ReadProp(_, _, _)
ReadProp(h, r, key) ==
  IF r = 0
    THEN (IF key = "constructor" THEN Function
          ELSE IF key = "__proto__" THEN Null
          ELSE Undefined)
  ELSE IF key \in DOMAIN h[r].props THEN h[r].props[key]
  ELSE IF key = "__proto__" THEN Object(h[r].proto)
  ELSE ReadProp(h, h[r].proto, key)

\* key in x
RECURSIVE InObject(_, _, _)
InObject(h, r, key) ==
  IF r = 0 THEN key \in {"constructor", "__proto__"}
  ELSE \/ key \in DOMAIN h[r].props
       \/ key = "__proto__"
       \/ InObject(h, h[r].proto, key)

\* x[key] = value
WriteProp(h, r, key, value) ==
  IF key = "__proto__" /\ key \notin DOMAIN h[r].props
    THEN (IF value.t = "object" THEN [h EXCEPT ![r].proto = value.v] ELSE h)
    ELSE [h EXCEPT ![r].props =
            [k \in (DOMAIN h[r].props) \cup {key} |-> IF k = key THEN value ELSE h[r].props[k]]]

\* delete x[key]
DeleteProp(h, r, key) ==
  [h EXCEPT ![r].props = [k \in (DOMAIN h[r].props) \ {key} |-> h[r].props[k]]]

\* keys[keys.length - 1], which reads undefined in an empty array and is then
\* used as the key "undefined"
LastKey(keys) == IF keys = <<>> THEN "undefined" ELSE keys[Len(keys)]

\* mutant: the loop of setPath without the check of lines 18-22 before it
RECURSIVE setPath_from(_, _, _, _, _, _)
setPath_from(h, result, current, keys, i, value) ==
  IF i >= Len(keys)
    THEN [heap |-> WriteProp(h, current, LastKey(keys), value), value |-> result]
    ELSE LET held == ReadProp(h, current, keys[i])
             made == IF ~Truthy(held) \/ ~TypeofObject(held)
                       THEN Alloc(h, NewObject(EmptyObject))
                       ELSE Alloc(h, SpreadOf(h, held))
         IN setPath_from(WriteProp(made.heap, current, keys[i], made.value),
                         result, made.value.v, keys, i + 1, value)

setPath_unchecked(h, obj, keys, value) ==
  IF ~Truthy(obj) \/ ~TypeofObject(obj)
    THEN [heap |-> h, value |-> obj]
    ELSE LET made == Alloc(h, SpreadOf(h, obj))
         IN setPath_from(made.heap, made.value, made.value.v, keys, 1, value)

\* setPath, lines 10-42
setPath(h, obj, keys, value) ==
  IF ~Truthy(obj) \/ ~TypeofObject(obj)
    THEN [heap |-> h, value |-> obj]
  ELSE IF \E i \in 1..Len(keys) : keys[i] \in ReservedKeys
    THEN [heap |-> h, value |-> obj]
  ELSE LET made == Alloc(h, SpreadOf(h, obj))
       IN setPath_from(made.heap, made.value, made.value.v, keys, 1, value)

RECURSIVE getPath_from(_, _, _, _, _)
getPath_from(h, current, keys, i, defaultValue) ==
  IF i > Len(keys) THEN current
  ELSE IF current.t \in {"null", "undefined"} \/ ~TypeofObject(current)
          \/ ~InObject(h, current.v, keys[i])
    THEN defaultValue
  ELSE getPath_from(h, ReadProp(h, current.v, keys[i]), keys, i + 1, defaultValue)

\* getPath, lines 48-64
getPath(h, obj, keys, defaultValue) ==
  IF ~Truthy(obj) \/ ~TypeofObject(obj)
    THEN defaultValue
    ELSE getPath_from(h, obj, keys, 1, defaultValue)

\* deletePath, lines 100-122
RECURSIVE deletePath_from(_, _, _, _, _)
deletePath_from(h, result, current, keys, i) ==
  IF i >= Len(keys)
    THEN [heap |-> IF LastKey(keys) \notin ReservedKeys
                     THEN DeleteProp(h, current, LastKey(keys))
                     ELSE h,
          value |-> result]
    ELSE LET held == ReadProp(h, current, keys[i])
         IN IF ~Truthy(held) \/ ~TypeofObject(held)
              THEN [heap |-> h, value |-> result]
              ELSE LET made == Alloc(h, SpreadOf(h, held))
                   IN deletePath_from(WriteProp(made.heap, current, keys[i], made.value),
                                      result, made.value.v, keys, i + 1)

\* deletePath, lines 90-123
deletePath(h, obj, keys) ==
  IF ~Truthy(obj) \/ ~TypeofObject(obj)
    THEN [heap |-> h, value |-> obj]
  ELSE IF Len(keys) = 0
    THEN [heap |-> h, value |-> obj]
  ELSE LET made == Alloc(h, SpreadOf(h, obj))
       IN deletePath_from(made.heap, made.value, made.value.v, keys, 1)

\* mutant: the merge writes into target itself
RECURSIVE mergeDeep_over(_, _, _, _, _)
RECURSIVE mergeDeep_inPlace(_, _, _)
mergeDeep_inPlace(h, target, sources) ==
  IF Len(sources) = 0
    THEN [heap |-> h, value |-> target]
    ELSE mergeDeep_over(h, target, sources, 1, 1)

\* mergeDeep, lines 129-166
RECURSIVE mergeDeep(_, _, _)
mergeDeep(h, target, sources) ==
  IF Len(sources) = 0
    THEN [heap |-> h, value |-> target]
    ELSE LET made == Alloc(h, SpreadOf(h, target))
         IN mergeDeep_over(made.heap, made.value, sources, 1, 1)

\* the two loops of lines 134-163, at source s and at the k-th of its keys
mergeDeep_over(h, result, sources, s, k) ==
  IF s > Len(sources) THEN [heap |-> h, value |-> result]
  ELSE IF ~Truthy(sources[s]) \/ ~TypeofObject(sources[s])
          \/ k > Len(KeysOf(OwnProps(h, sources[s])))
    THEN mergeDeep_over(h, result, sources, s + 1, 1)
  ELSE IF KeysOf(OwnProps(h, sources[s]))[k] \in ReservedKeys
    THEN mergeDeep_over(h, result, sources, s, k + 1)
  ELSE LET key == KeysOf(OwnProps(h, sources[s]))[k]
           sourceValue == h[sources[s].v].props[key]
           targetValue == ReadProp(h, result.v, key)
           mapping(x) == Truthy(x) /\ x.t = "object" /\ ~h[x.v].array
       IN IF mapping(sourceValue) /\ mapping(targetValue)
            THEN LET merged == mergeDeep(h, targetValue, <<sourceValue>>)
                 IN mergeDeep_over(WriteProp(merged.heap, result.v, key, merged.value),
                                   result, sources, s, k + 1)
            ELSE mergeDeep_over(WriteProp(h, result.v, key, sourceValue),
                                result, sources, s, k + 1)

\* an object literal put into memory: its nested literals first, key by key
RECURSIVE Load(_, _)
RECURSIVE LoadProps(_, _, _, _)
LoadProps(h, tree, k, props) ==
  IF k > Len(KeysOf(tree.v.props))
    THEN Alloc(h, [array |-> tree.v.array, proto |-> 0, props |-> props])
    ELSE LET made == Load(h, tree.v.props[KeysOf(tree.v.props)[k]])
         IN LoadProps(made.heap, tree, k + 1,
                      [key \in (DOMAIN props) \cup {KeysOf(tree.v.props)[k]} |->
                         IF key = KeysOf(tree.v.props)[k] THEN made.value ELSE props[key]])

Load(h, tree) ==
  IF tree.t = "tree" THEN LoadProps(h, tree, 1, EmptyObject) ELSE [heap |-> h, value |-> tree]

\* what a value looks like from outside: the object literal it would print as
RECURSIVE Shape(_, _)
Shape(h, x) ==
  IF x.t = "object" /\ x.v # 0
    THEN Tree(h[x.v].array, [key \in DOMAIN h[x.v].props |-> Shape(h, h[x.v].props[key])])
    ELSE x

\* the values and object literals the calls are given
PathValues == {Leaf(0), Leaf(1), EmptyString, Null, False}
PathRoots ==
  {Tree(FALSE, EmptyObject),
   Tree(FALSE, [a |-> Leaf(0)]),
   Tree(FALSE, [a |-> Tree(FALSE, [b |-> Leaf(1)])]),
   Tree(FALSE, [a |-> Tree(FALSE, [b |-> Leaf(1)]), b |-> Null]),
   Tree(FALSE, [a |-> Tree(FALSE, [a |-> Leaf(1), b |-> Tree(FALSE, [a |-> Leaf(1)])])]),
   Tree(FALSE, [a |-> Tree(TRUE, ("0" :> Leaf(1)))]),
   Null}
Paths == UNION {[1..len -> PlainKeys \cup ReservedKeys] : len \in 0..MaxPath}
MergeTrees ==
  {Tree(FALSE, EmptyObject),
   Tree(FALSE, [a |-> Leaf(1)]),
   Tree(FALSE, [a |-> Tree(FALSE, [b |-> Leaf(1)])]),
   Tree(FALSE, [a |-> Tree(FALSE, [a |-> Leaf(0)]), b |-> Leaf(1)]),
   Tree(FALSE, [a |-> Tree(TRUE, ("0" :> Leaf(1))), b |-> Tree(FALSE, [a |-> Leaf(1)])]),
   Tree(FALSE, [a |-> Tree(TRUE, ("0" :> Leaf(0))), b |-> Tree(FALSE, [b |-> Null])]),
   Tree(FALSE, [a |-> Tree(FALSE, [b |-> Tree(FALSE, [a |-> Leaf(0)])]), b |-> Leaf(0)])}

NoObjectsCall == [op |-> "none", heap |-> <<>>, result |-> Undefined, other |-> Undefined]
NoArguments == [heap |-> <<>>, root |-> Undefined, path |-> <<>>, value |-> Undefined, sources |-> <<>>]

ParkedObjects ==
  /\ ou = NoArguments
  /\ ouLast = NoObjectsCall

\* one object literal in memory, a path and a value
InitPaths ==
  /\ \E tree \in PathRoots : \E path \in Paths : \E value \in PathValues :
       LET made == Load(<<>>, tree)
       IN ou = [heap |-> made.heap, root |-> made.value, path |-> path,
                value |-> value, sources |-> <<>>]
  /\ ouLast = NoObjectsCall

\* three object literals in memory: the target and two sources
InitMerge ==
  /\ \E t \in MergeTrees : \E s1 \in MergeTrees : \E s2 \in MergeTrees :
       LET target == Load(<<>>, t)
           source1 == Load(target.heap, s1)
           source2 == Load(source1.heap, s2)
       IN ou = [heap |-> source2.heap, root |-> target.value, path |-> <<>>,
                value |-> Undefined, sources |-> <<source1.value, source2.value>>]
  /\ ouLast = NoObjectsCall

\* result = setPath(root, path, value), then getPath(result, path)
OU_setPath ==
  /\ ouLast.op = "none"
  /\ LET r == setPath(ou.heap, ou.root, ou.path, ou.value)
     IN ouLast' = [op |-> "setPath", heap |-> r.heap, result |-> r.value,
                   other |-> getPath(r.heap, r.value, ou.path, Undefined)]
  /\ UNCHANGED <<notObjects, ou>>

OU_deletePath ==
  /\ ouLast.op = "none"
  /\ LET r == deletePath(ou.heap, ou.root, ou.path)
     IN ouLast' = [op |-> "deletePath", heap |-> r.heap, result |-> r.value,
                   other |-> Undefined]
  /\ UNCHANGED <<notObjects, ou>>

NextPaths ==
  \/ OU_setPath
  \/ OU_deletePath

\* mergeDeep(mergeDeep(t, s1), s2), and mergeDeep(t, s1, s2) in the same memory
OU_mergeDeep ==
  /\ ouLast.op = "none"
  /\ LET first == mergeDeep(ou.heap, ou.root, <<ou.sources[1]>>)
         second == mergeDeep(first.heap, first.value, <<ou.sources[2]>>)
         both == mergeDeep(second.heap, ou.root, ou.sources)
     IN ouLast' = [op |-> "mergeDeep", heap |-> both.heap, result |-> second.value,
                   other |-> both.value]
  /\ UNCHANGED <<notObjects, ou>>

NextMerge == OU_mergeDeep

(***************************************************************************)
(* EnvResolver (utils/env-resolver.ts)                                     *)
(*                                                                         *)
(* A string is the sequence of its characters.  ENV_VAR_REGEX (line 25)   *)
(* matches a dollar sign, an opening brace, a name of one or more          *)
(* characters other than a closing brace and a colon, optionally a colon   *)
(* and a default of characters other than a closing brace, and a closing   *)
(* brace.  It is one regular expression object with the g flag, whose      *)
(* lastIndex is part of the resolver's state.  test starts                 *)
(* at lastIndex and leaves it after the match, or at 0 when there is none; *)
(* replace starts at 0 and leaves 0; matchAll works on a copy that starts  *)
(* at the lastIndex of the original.  A value is a string, a number, or an *)
(* array or object of values; an object's keys come in insertion order.    *)
(***************************************************************************)
MaxSegments == 2

Text(s) == [t |-> "string", s |-> s, keys |-> <<>>, items |-> <<>>]
Num == [t |-> "number", s |-> <<>>, keys |-> <<>>, items |-> <<>>]
List(items) == [t |-> "array", s |-> <<>>, keys |-> <<>>, items |-> items]
Dict(keys, items) == [t |-> "object", s |-> <<>>, keys |-> keys, items |-> items]

NoMatch == [found |-> FALSE, index |-> 0, last |-> 0, name |-> <<>>,
            hasDefault |-> FALSE, default |-> <<>>]

\* the first position from i on that holds one of the characters, or the
\* position after the string
RunEnd(str, i, stop) ==
  LET ends == {j \in i..(Len(str) + 1) : j = Len(str) + 1 \/ str[j] \in stop}
  IN CHOOSE j \in ends : \A k \in ends : j <= k

\* ENV_VAR_REGEX matched at position i (counted from 1); last is the position
\* of the closing brace, which is lastIndex after the match
MatchAt(str, i) ==
  IF i + 1 > Len(str) THEN NoMatch
  ELSE IF str[i] # "$" \/ str[i + 1] # "{" THEN NoMatch
  ELSE LET nameEnd == RunEnd(str, i + 2, {"}", ":"})
           defaultEnd == RunEnd(str, nameEnd + 1, {"}"})
       IN IF nameEnd = i + 2 \/ nameEnd > Len(str) THEN NoMatch
          ELSE IF str[nameEnd] = "}"
            THEN [found |-> TRUE, index |-> i, last |-> nameEnd,
                  name |-> SubSeq(str, i + 2, nameEnd - 1),
                  hasDefault |-> FALSE, default |-> <<>>]
          ELSE IF defaultEnd > Len(str) THEN NoMatch
          ELSE [found |-> TRUE, index |-> i, last |-> defaultEnd,
                name |-> SubSeq(str, i + 2, nameEnd - 1),
                hasDefault |-> TRUE, default |-> SubSeq(str, nameEnd + 1, defaultEnd - 1)]

\* ENV_VAR_REGEX.exec(str) with the given lastIndex
RegExp_exec(str, lastIndex) ==
  LET starts == {i \in (lastIndex + 1)..Len(str) : MatchAt(str, i).found}
  IN IF starts = {} THEN NoMatch
     ELSE MatchAt(str, CHOOSE i \in starts : \A j \in starts : i <= j)

\* ENV_VAR_REGEX.test(str): the answer and the lastIndex it leaves
RegExp_test(str, lastIndex) ==
  LET m == RegExp_exec(str, lastIndex)
  IN [result |-> m.found, lastIndex |-> IF m.found THEN m.last ELSE 0]

\* str.matchAll(ENV_VAR_REGEX): the matches from lastIndex on
RECURSIVE matchAll(_, _)
matchAll(str, lastIndex) ==
  LET m == RegExp_exec(str, lastIndex)
  IN IF m.found THEN <<m>> \o matchAll(str, m.last) ELSE <<>>

EnvResolver_new(env, strict, prefix) ==
  [env |-> env, strict |-> strict, prefix |-> prefix, lastIndex |-> 0]

\* mutant: the default is consulted before the environment
replacement_defaultFirst(r, m) ==
  LET fullVarName == r.prefix \o m.name
  IN IF m.hasDefault THEN [ok |-> TRUE, s |-> m.default, variable |-> <<>>]
     ELSE IF fullVarName \in DOMAIN r.env
       THEN [ok |-> TRUE, s |-> r.env[fullVarName], variable |-> <<>>]
     ELSE IF r.strict THEN [ok |-> FALSE, s |-> <<>>, variable |-> fullVarName]
     ELSE [ok |-> TRUE, s |-> <<>>, variable |-> <<>>]

\* the replacer of lines 64-91: what one match is replaced by, or the variable
\* of the EnvResolutionError thrown; an empty s with no default and nothing in
\* the environment stands for the match itself
replacement(r, m) ==
  LET fullVarName == r.prefix \o m.name
  IN IF fullVarName \in DOMAIN r.env
       THEN [ok |-> TRUE, s |-> r.env[fullVarName], variable |-> <<>>]
     ELSE IF m.hasDefault THEN [ok |-> TRUE, s |-> m.default, variable |-> <<>>]
     ELSE IF r.strict THEN [ok |-> FALSE, s |-> <<>>, variable |-> fullVarName]
     ELSE [ok |-> TRUE, s |-> <<>>, variable |-> <<>>]

\* resolveString, lines 63-92: str.replace from position from on
RECURSIVE resolveString(_, _, _)
resolveString(r, str, from) ==
  LET m == RegExp_exec(str, from)
  IN IF ~m.found
       THEN [ok |-> TRUE, s |-> SubSeq(str, from + 1, Len(str)), variable |-> <<>>]
       ELSE LET piece == replacement(r, m)
                kept == r.prefix \o m.name \notin DOMAIN r.env /\ ~m.hasDefault
                rest == resolveString(r, str, m.last)
            IN IF ~piece.ok THEN piece
               ELSE IF ~rest.ok THEN rest
               ELSE [ok |-> TRUE,
                     s |-> SubSeq(str, from + 1, m.index - 1)
                           \o (IF kept THEN SubSeq(str, m.index, m.last) ELSE piece.s)
                           \o rest.s,
                     variable |-> <<>>]

\* resolve, lines 37-58: the new value, or the error the first failing string threw
RECURSIVE resolve(_, _)
RECURSIVE resolveItems(_, _, _)
resolveItems(r, items, i) ==
  IF i > Len(items) THEN [ok |-> TRUE, items |-> <<>>, variable |-> <<>>]
  ELSE LET first == resolve(r, items[i])
           rest == resolveItems(r, items, i + 1)
       IN IF ~first.ok THEN [ok |-> FALSE, items |-> <<>>, variable |-> first.variable]
          ELSE IF ~rest.ok THEN rest
          ELSE [ok |-> TRUE, items |-> <<first.value>> \o rest.items, variable |-> <<>>]

resolve(r, value) ==
  IF value.t = "string"
    THEN LET str == resolveString(r, value.s, 0)
         IN [ok |-> str.ok, value |-> Text(str.s), variable |-> str.variable]
  ELSE IF value.t \in {"array", "object"}
    THEN LET resolved == resolveItems(r, value.items, 1)
         IN [ok |-> resolved.ok,
             value |-> [value EXCEPT !.items = resolved.items],
             variable |-> resolved.variable]
  ELSE [ok |-> TRUE, value |-> value, variable |-> <<>>]

\* hasEnvVars, lines 97-111: the answer and the lastIndex left; some() stops
\* at the first item that answers true
RECURSIVE hasEnvVars(_, _)
RECURSIVE hasEnvVarsSome(_, _, _)
hasEnvVarsSome(items, i, lastIndex) ==
  IF i > Len(items) THEN [result |-> FALSE, lastIndex |-> lastIndex]
  ELSE LET first == hasEnvVars(items[i], lastIndex)
       IN IF first.result THEN first ELSE hasEnvVarsSome(items, i + 1, first.lastIndex)

hasEnvVars(value, lastIndex) ==
  IF value.t = "string" THEN RegExp_test(value.s, lastIndex)
  ELSE IF value.t \in {"array", "object"} THEN hasEnvVarsSome(value.items, 1, lastIndex)
  ELSE [result |-> FALSE, lastIndex |-> lastIndex]

\* the matches extract (lines 119-130) visits, in order
RECURSIVE extract(_, _)
extract(value, lastIndex) ==
  IF value.t = "string" THEN matchAll(value.s, lastIndex)
  ELSE IF value.t \in {"array", "object"} /\ value.items # <<>>
    THEN extract(Head(value.items), lastIndex)
         \o extract([value EXCEPT !.items = Tail(value.items)], lastIndex)
  ELSE <<>>

\* extractEnvVars, lines 116-134: Array.from of the Set of names
extractEnvVars(value, lastIndex) ==
  LET matches == extract(value, lastIndex)
  IN Dedupe([i \in 1..Len(matches) |-> matches[i].name])

\* JSON.stringify(value), as characters; a key is one character
RECURSIVE stringify(_)
stringify(value) ==
  CASE value.t = "string" -> <<"\"">> \o value.s \o <<"\"">>
    [] value.t = "number" -> <<"1">>
    [] value.t = "array" ->
         <<"[">> \o Join([i \in 1..Len(value.items) |-> stringify(value.items[i])], <<",">>)
         \o <<"]">>
    [] value.t = "object" ->
         <<"{">> \o Join([i \in 1..Len(value.items) |->
                           <<"\"", value.keys[i], "\"", ":">> \o stringify(value.items[i])],
                        <<",">>)
         \o <<"}">>

\* checkHasDefault, lines 163-167: the name, a colon and a default of one or more characters, found in the JSON text
checkHasDefault(value, varName) ==
  LET str == stringify(value)
      head == <<"$", "{">> \o varName \o <<":">>
  IN \E i \in 1..Len(str) :
        /\ i + Len(head) - 1 <= Len(str)
        /\ SubSeq(str, i, i + Len(head) - 1) = head
        /\ LET stop == RunEnd(str, i + Len(head), {"}"})
           IN stop > i + Len(head) /\ stop <= Len(str)

\* validate, lines 139-158
validate(r, value) ==
  LET varNames == extractEnvVars(value, r.lastIndex)
      missing == SelectSeq(varNames, LAMBDA varName :
                    /\ r.prefix \o varName \notin DOMAIN r.env
                    /\ ~checkHasDefault(value, varName))
  IN [valid |-> Len(missing) = 0, missing |-> missing]

\* what the strings given are made of: a character of plain text, or a
\* placeholder with its name and, if it has one, its default
Lit(c) == [lit |-> TRUE, name |-> <<c>>, hasDefault |-> FALSE, default |-> <<>>]
Ph(name, hasDefault, default) ==
  [lit |-> FALSE, name |-> name, hasDefault |-> hasDefault, default |-> default]
Segments ==
  {Lit("x"), Lit(":"), Lit("}"),
   Ph(<<"A">>, FALSE, <<>>), Ph(<<"A">>, TRUE, <<>>), Ph(<<"A">>, TRUE, <<"d">>),
   Ph(<<"B">>, FALSE, <<>>)}

\* the characters of a segment and of a sequence of segments
Written(segment) ==
  IF segment.lit THEN segment.name
  ELSE <<"$", "{">> \o segment.name
       \o (IF segment.hasDefault THEN <<":">> \o segment.default ELSE <<>>)
       \o <<"}">>

RECURSIVE WrittenAll(_)
WrittenAll(segments) ==
  IF segments = <<>> THEN <<>> ELSE Written(Head(segments)) \o WrittenAll(Tail(segments))

\* the value whose strings are written out from their segments
RECURSIVE ValueOf(_)
ValueOf(plan) ==
  IF plan.t = "string" THEN Text(WrittenAll(plan.s))
  ELSE [plan EXCEPT !.items = [i \in 1..Len(plan.items) |-> ValueOf(plan.items[i])]]

SegmentLists == UNION {[1..len -> Segments] : len \in 0..MaxSegments}
\* the values given to resolve and validate: every string of up to
\* MaxSegments segments, alone and as the one nested string of an array
\* and an object that also hold a number and a string with a placeholder
ResolvePlans ==
  {Text(segments) : segments \in SegmentLists}
  \cup {List(<<Num, Text(segments), Text(<<Ph(<<"A">>, TRUE, <<"d">>)>>)>>)
          : segments \in [1..1 -> Segments]}
  \cup {Dict(<<"k", "m">>, <<Text(segments), List(<<Text(<<Ph(<<"B">>, FALSE, <<>>)>>)>>)>>)
          : segments \in [1..1 -> Segments]}
\* the values given in a sequence of calls on one resolver
CallPlans ==
  {Text(<<Lit("x")>>),
   Text(<<Ph(<<"A">>, FALSE, <<>>)>>),
   Text(<<Lit("x"), Ph(<<"A">>, TRUE, <<"d">>)>>),
   Text(<<Ph(<<"A">>, FALSE, <<>>), Ph(<<"B">>, FALSE, <<>>)>>),
   List(<<Text(<<Lit("x")>>), Text(<<Ph(<<"A">>, FALSE, <<>>)>>)>>),
   Dict(<<"k">>, <<Text(<<Ph(<<"B">>, TRUE, <<>>)>>)>>)}

EnvValues == {<<"v">>, <<>>}
Prefixes == {<<>>, <<"P">>}
\* the environments: A and PA defined or not, B never
Environments ==
  UNION {[names -> EnvValues] : names \in SUBSET {<<"A">>, <<"P", "A">>}}

NoResolverCall ==
  [op |-> "none", plan |-> Num, found |-> FALSE, resolved |-> [ok |-> TRUE, value |-> Num, variable |-> <<>>],
   validated |-> [valid |-> TRUE, missing |-> <<>>], strictThrows |-> FALSE]

InitResolver ==
  /\ \E env \in Environments : \E strict \in BOOLEAN : \E prefix \in Prefixes :
       er = EnvResolver_new(env, strict, prefix)
  /\ erLast = NoResolverCall

ParkedResolver ==
  /\ er = EnvResolver_new(EmptyObject, FALSE, <<>>)
  /\ erLast = NoResolverCall

ER_hasEnvVars(plan) ==
  /\ LET r == hasEnvVars(ValueOf(plan), er.lastIndex)
     IN /\ er' = [er EXCEPT !.lastIndex = r.lastIndex]
        /\ erLast' = [NoResolverCall EXCEPT !.op = "hasEnvVars", !.plan = plan,
                                            !.found = r.result]
  /\ UNCHANGED notResolver

\* resolve starts every replace at 0 and leaves lastIndex at 0
ER_resolve(plan) ==
  /\ er' = [er EXCEPT !.lastIndex = 0]
  /\ erLast' = [NoResolverCall EXCEPT !.op = "resolve", !.plan = plan,
                                      !.resolved = resolve(er, ValueOf(plan))]
  /\ UNCHANGED notResolver

\* validate, and what resolve in strict mode would do with the same value
ER_validate(plan) ==
  /\ erLast' = [NoResolverCall EXCEPT
                  !.op = "validate", !.plan = plan,
                  !.validated = validate(er, ValueOf(plan)),
                  !.strictThrows = ~resolve([er EXCEPT !.strict = TRUE], ValueOf(plan)).ok]
  /\ UNCHANGED <<notResolver, er>>

\* one call on a new resolver
NextResolveOnce ==
  \/ \E plan \in ResolvePlans : erLast.op = "none" /\ ER_resolve(plan)
  \/ \E plan \in ResolvePlans : erLast.op = "none" /\ ER_validate(plan)

\* any sequence of calls on one resolver
NextResolverCalls ==
  \/ \E plan \in CallPlans : ER_hasEnvVars(plan)
  \/ \E plan \in CallPlans : ER_resolve(plan)
  \/ \E plan \in CallPlans : ER_validate(plan)

(***************************************************************************)
(* A ConfigManager that watches its files (core/config-manager.ts)         *)
(*                                                                         *)
(* The manager is the one createConfig({watch: true}) returns once init()  *)
(* has resolved: two files found and loaded, the watcher started.  The     *)
(* content of a file is the number of times it has been written; the       *)
(* configuration is the content that was read of each file.  The watcher's *)
(* 'change' handler calls debouncedReload (debounceDelay || 300 is never   *)
(* 0), which is debounce(this.reload.bind(this), delay).  reload() is cut  *)
(* at its awaits of loadFile; every load resolves and validation passes.   *)
(***************************************************************************)
MaxChanges == 2

WatchedFiles == <<"config.json", "config.development.toml">>

\* what each file holds on disk before it is written again
FirstContents == [path \in {WatchedFiles[1], WatchedFiles[2]} |-> 0]

NoReloadCall == [pc |-> "idle", index |-> 0, newConfig |-> EmptyObject]

\* constructor and init(), lines 36-103: the configuration loaded from the
\* files as they are, the watcher on them started
WatchingManager_new(delay) ==
  [config |-> FirstContents, files |-> WatchedFiles, isLoading |-> FALSE,
   watcher |-> TRUE, debouncedReload |-> debounce_new(delay), reload |-> NoReloadCall]

\* reload(), lines 109-135, down to the first awaited loadFile: a no-op
\* while another reload is in flight
WatchingManager_reload(manager) ==
  IF reload_guard(manager.isLoading) THEN manager
  ELSE [manager EXCEPT !.isLoading = TRUE,
                       !.files = WatchedFiles,
                       !.reload = [pc |-> "loading", index |-> 1,
                                   newConfig |-> EmptyObject]]

\* destroy(), lines 593-601: stopWatching, then config = {} and files = [];
\* nothing here reaches the timer that debouncedReload closes over
WatchingManager_destroy(manager) ==
  [manager EXCEPT !.watcher = FALSE, !.config = EmptyObject, !.files = <<>>]

NothingSeen ==
  [disk |-> FirstContents, changes |-> 0, notified |-> FALSE, destroyed |-> FALSE,
   idleAtDestroy |-> FALSE, loadedSinceDestroy |-> 0]

InitWatch ==
  /\ now = 1
  /\ \E delay \in 1..MaxDelay : wm = WatchingManager_new(delay)
  /\ wmSeen = NothingSeen

ParkedWatch ==
  /\ wm = WatchingManager_new(1)
  /\ wmSeen = NothingSeen

\* time passes while no timer is due: up to MaxTime, and past it only towards
\* a timer that is still pending
WM_tick ==
  /\ now < MaxTime \/ wm.debouncedReload.timers # {}
  /\ Due(wm.debouncedReload, now) = {}
  /\ now' = now + 1
  /\ UNCHANGED <<notWatch, wmOwn>>

\* a file is written; if the watcher is open its 'change' handler runs
\* (lines 384-390): debouncedReload()
WM_fileChanges(path) ==
  /\ wmSeen.changes < MaxChanges
  /\ Due(wm.debouncedReload, now) = {}
  /\ wmSeen' = [wmSeen EXCEPT !.disk[path] = @ + 1,
                              !.changes = @ + 1,
                              !.notified = @ \/ wm.watcher]
  /\ wm' = IF wm.watcher
             THEN [wm EXCEPT !.debouncedReload = debounced(@, <<>>, now)]
             ELSE wm
  /\ UNCHANGED <<now, notWatch>>

\* a due timer fires: fn.apply(this, args), which is reload() down to its
\* first await, then timeoutId = null
WM_fire ==
  /\ \E timer \in Due(wm.debouncedReload, now) :
       wm' = [WatchingManager_reload(wm) EXCEPT
                !.debouncedReload = timerCallback(wm.debouncedReload, timer)]
  /\ UNCHANGED <<now, notWatch, wmSeen>>

\* the awaited loadFile resolved with what the file holds; the next file is
\* awaited, or (lines 156-193) the new configuration is committed and the
\* guard released
WM_fileLoaded ==
  /\ wm.reload.pc = "loading"
  /\ LET path == WatchedFiles[wm.reload.index]
         newConfig == Spread(wm.reload.newConfig, (path :> wmSeen.disk[path]))
     IN wm' = IF wm.reload.index < Len(WatchedFiles)
                THEN [wm EXCEPT !.reload.index = @ + 1, !.reload.newConfig = newConfig]
                ELSE [wm EXCEPT !.config = newConfig, !.isLoading = FALSE,
                                !.reload = NoReloadCall]
  /\ wmSeen' = [wmSeen EXCEPT !.loadedSinceDestroy =
                                 IF wmSeen.destroyed THEN 1 ELSE 0]
  /\ UNCHANGED <<now, notWatch>>

\* destroy() is called, once
WM_destroy ==
  /\ ~wmSeen.destroyed
  /\ Due(wm.debouncedReload, now) = {}
  /\ wm' = WatchingManager_destroy(wm)
  /\ wmSeen' = [wmSeen EXCEPT !.destroyed = TRUE,
                              !.idleAtDestroy = ~wm.isLoading]
  /\ UNCHANGED <<now, notWatch>>

NextWatch ==
  \/ WM_tick
  \/ \E path \in {WatchedFiles[1], WatchedFiles[2]} : WM_fileChanges(path)
  \/ WM_fire
  \/ WM_fileLoaded
  \/ WM_destroy

\* the components added after the core ones, as constructed and left alone
ParkedLater == ParkedDetector /\ InitDegradation /\ ParkedObjects /\ ParkedResolver /\ ParkedWatch
ParkedUtils == ParkedCache /\ ParkedEnhanced /\ ParkedSnapshots /\ ParkedRollback /\ ParkedDebounce /\ ParkedLater

\* the initial states of each specification: its own component as constructed,
\* with the options it can be given, and every other component parked
InitBreakerSpec == InitOptions /\ InitCB /\ InitRetry /\ InitRecovery /\ ParkedManager /\ ParkedUtils
InitRetrySpec == ParkedOptions /\ InitCB /\ InitRetry /\ InitRecovery /\ ParkedManager /\ ParkedUtils
InitRecoverySpec == InitOptions /\ InitCB /\ InitRetry /\ InitRecovery /\ ParkedManager /\ ParkedUtils
InitManagerSpec == ParkedOptions /\ InitCB /\ InitRetry /\ InitRecovery /\ InitManager /\ ParkedUtils

SpecCBSeq == InitBreakerSpec /\ [][NextCBSeq]_vars
SpecCB == InitBreakerSpec /\ [][NextCB]_vars
SpecRetry == InitRetrySpec /\ [][NextRetry]_vars
SpecRecoverySeq == InitRecoverySpec /\ [][NextRecoverySeq]_vars
SpecManager == InitManagerSpec /\ [][NextManager]_vars
InitRecoveryOverlapSpec == ParkedOptions /\ InitCB /\ InitRetry /\ InitRecovery /\ ParkedManager /\ ParkedUtils
SpecRecovery == InitRecoveryOverlapSpec /\ [][NextRecovery]_vars

ParkedCore == ParkedOptions /\ InitCB /\ InitRetry /\ InitRecovery /\ ParkedManager
InitCacheSpec == ParkedCore /\ InitCache /\ ParkedEnhanced /\ ParkedSnapshots /\ ParkedRollback /\ ParkedDebounce /\ ParkedLater
SpecCache == InitCacheSpec /\ [][NextCache]_vars
InitCacheLruSpec == ParkedCore /\ InitCacheLru /\ ParkedEnhanced /\ ParkedSnapshots /\ ParkedRollback /\ ParkedDebounce /\ ParkedLater
SpecCacheLru == InitCacheLruSpec /\ [][NextCacheLru]_vars
InitEnhancedSpec == ParkedCore /\ ParkedCache /\ InitEnhanced /\ ParkedSnapshots /\ ParkedRollback /\ ParkedDebounce /\ ParkedLater
SpecEnhanced == InitEnhancedSpec /\ [][NextEnhanced]_vars
InitSnapshotsSpec == ParkedCore /\ ParkedCache /\ ParkedEnhanced /\ InitSnapshots /\ ParkedRollback /\ ParkedDebounce /\ ParkedLater
SpecSnapshots == InitSnapshotsSpec /\ [][NextSnapshots]_vars
InitRollbackSpec == ParkedCore /\ ParkedCache /\ ParkedEnhanced /\ ParkedSnapshots /\ InitRollback /\ ParkedDebounce /\ ParkedLater
SpecRollback == InitRollbackSpec /\ [][NextRollback]_vars
InitDebounceSpec == ParkedCore /\ ParkedCache /\ ParkedEnhanced /\ ParkedSnapshots /\ ParkedRollback /\ InitDebounce /\ ParkedLater
SpecDebounce == InitDebounceSpec /\ [][NextDebounce]_vars
ParkedEarlier == ParkedCore /\ ParkedCache /\ ParkedEnhanced /\ ParkedSnapshots /\ ParkedRollback /\ ParkedDebounce
InitDetectorSpec == ParkedEarlier /\ InitDetector /\ InitDegradation /\ ParkedObjects /\ ParkedResolver /\ ParkedWatch
SpecDetector == InitDetectorSpec /\ [][NextDetector]_vars
InitDegradationSpec == ParkedEarlier /\ ParkedDetector /\ InitDegradation /\ ParkedObjects /\ ParkedResolver /\ ParkedWatch
SpecDegradation == InitDegradationSpec /\ [][NextDegradation]_vars
InitPathsSpec == ParkedEarlier /\ ParkedDetector /\ InitDegradation /\ InitPaths /\ ParkedResolver /\ ParkedWatch
SpecPaths == InitPathsSpec /\ [][NextPaths]_vars
InitMergeSpec == ParkedEarlier /\ ParkedDetector /\ InitDegradation /\ InitMerge /\ ParkedResolver /\ ParkedWatch
SpecMerge == InitMergeSpec /\ [][NextMerge]_vars
InitResolverSpec == ParkedEarlier /\ ParkedDetector /\ InitDegradation /\ ParkedObjects /\ InitResolver /\ ParkedWatch
SpecResolveOnce == InitResolverSpec /\ [][NextResolveOnce]_vars
SpecResolverCalls == InitResolverSpec /\ [][NextResolverCalls]_vars
InitWatchSpec == ParkedEarlier /\ ParkedDetector /\ InitDegradation /\ ParkedObjects /\ ParkedResolver /\ InitWatch
SpecWatch == InitWatchSpec /\ [][NextWatch]_vars
\* timers fire when due, awaited loads settle and the clock advances
FairWatch == WF_vars(WM_tick) /\ WF_vars(WM_fire) /\ WF_vars(WM_fileLoaded)
SpecWatchLive == InitWatchSpec /\ [][NextWatch]_vars /\ FairWatch

(***************************************************************************)
(* Claims about the CircuitBreaker                                         *)
(***************************************************************************)

\* C1 (sequential calls): once failureThreshold invocations in a row have
\* failed the breaker is OPEN; a call is rejected exactly when it arrives at an
\* OPEN breaker before resetTimeout has elapsed since the last failure, and a
\* rejected call does not invoke the operation and leaves state, failures and
\* lastFailureTime as they were.
C1_OpenAfterThresholdAndRejects ==
  /\ (CbIdle /\ cbRun >= failureThreshold) => cb.state = "OPEN"
  /\ cbLast.kind = "rejected" =>
        /\ cbLast.pre.state = "OPEN"
        /\ cbLast.at - cbLast.pre.lastFailureTime < resetTimeout
        /\ ~cbLast.invoked
        /\ cbPc[cbLast.caller] = "idle"
        /\ cb.state = cbLast.pre.state
        /\ cb.failures = cbLast.pre.failures
        /\ cb.lastFailureTime = cbLast.pre.lastFailureTime
  /\ cbLast.kind = "entered" =>
        ~(cbLast.pre.state = "OPEN"
          /\ cbLast.at - cbLast.pre.lastFailureTime < resetTimeout)

C1_Witness ==
  /\ cbLast.kind = "rejected"
  /\ failureThreshold >= 2
  /\ cbRun >= failureThreshold
  /\ cb.state = "OPEN"

\* C2: a failure of the wrapped operation while the breaker is HALF_OPEN leaves
\* the breaker OPEN with lastFailureTime set to the time of that failure.
C2_HalfOpenFailureReopens ==
  (cbLast.kind = "fail" /\ cbLast.pre.state = "HALF_OPEN") =>
     (cb.state = "OPEN" /\ cb.lastFailureTime = cbLast.at)

\* C3 (sequential calls): the call that finds an OPEN breaker whose
\* resetTimeout has elapsed runs the operation with the breaker HALF_OPEN; with
\* only successes from then on the breaker is HALF_OPEN after the 1st and 2nd
\* success and CLOSED after the 3rd.
C3_TrialThenThreeSuccessesClose ==
  /\ (cbLast.kind = "entered" /\ cbLast.pre.state = "OPEN") =>
        /\ cbLast.at - cbLast.pre.lastFailureTime >= resetTimeout
        /\ cb.state = "HALF_OPEN"
        /\ cbPc[cbLast.caller] = "inOp"
  /\ (CbIdle /\ cbTrial \in {1, 2}) => cb.state = "HALF_OPEN"
  /\ (CbIdle /\ cbTrial = 3) => cb.state = "CLOSED"

C3_Witness ==
  /\ CbIdle
  /\ cbTrial = 3
  /\ cb.state = "CLOSED"
  /\ cbLast.kind = "ok"
  /\ cbLast.pre.state = "HALF_OPEN"

\* C4 (interleaved callers): while the trial call that moved the breaker from
\* OPEN to HALF_OPEN is in flight, no call that arrived after it has invoked
\* its operation.
C4_OnlyTrialCallInFlight ==
  \A c \in Callers : cbVia[c] # "duringTrial"

(***************************************************************************)
(* Claims about the RetryManager                                           *)
(***************************************************************************)
RetryEnded == rt.call.pc \in {"resolved", "rejected"}

\* C5: with no shouldRetry supplied and maxAttempts = N, an operation that first
\* resolves on invocation k <= N makes execute resolve with that value after
\* exactly k invocations, and an operation that never resolves within N
\* invocations is invoked exactly N times before execute rejects.
C5_DefaultRetriesUpToMaxAttempts ==
  (RetryEnded /\ rt.call.opts.shouldRetry = "default") =>
     IF rt.plan <= rt.call.opts.maxAttempts
       THEN /\ rt.call.pc = "resolved"
            /\ rt.call.result = rt.plan
            /\ rt.call.invocations = rt.plan
       ELSE /\ rt.call.pc = "rejected"
            /\ rt.call.invocations = rt.call.opts.maxAttempts

\* C6: execute rejects with the very error the last invocation raised, right
\* after that invocation (one sleep per earlier failure, none after the last),
\* and it does so exactly when the failed attempt was the final one or
\* shouldRetry said no; it sleeps only when neither is the case.  A shouldRetry
\* that always says no gives exactly one invocation.
C6_RejectsWithLastErrorAtOnce ==
  /\ rt.call.pc = "rejected" =>
        /\ rt.call.thrown = rt.raised
        /\ rt.call.thrown.kind = "Error"
        /\ rt.call.thrown.by = rt.call.invocations
        /\ rt.call.sleeps = rt.call.invocations - 1
        /\ \/ rt.call.attempt = rt.call.opts.maxAttempts
           \/ ~shouldRetry(rt.call.opts.shouldRetry, rt.raised, rt.call.attempt)
  /\ rt.call.pc = "sleeping" =>
        /\ rt.call.attempt < rt.call.opts.maxAttempts
        /\ shouldRetry(rt.call.opts.shouldRetry, rt.raised, rt.call.attempt)
        /\ rt.call.sleeps = rt.call.invocations
  /\ (rt.call.pc = "rejected" /\ rt.call.opts.shouldRetry = "never") =>
        rt.call.invocations = 1

C6_Witness ==
  /\ rt.call.pc = "rejected"
  /\ rt.call.opts.shouldRetry = "notSyntax"
  /\ rt.call.invocations = 2
  /\ rt.call.opts.maxAttempts > 2
  /\ rt.call.thrown = NewError("Error", <<"SyntaxError", "invalid">>, 2)

(***************************************************************************)
(* Claims about the ConfigRecoveryManager                                  *)
(***************************************************************************)

\* C7: a load whose loader failed (after its retries) resolves with the value
\* most recently stored by a successful load or by setLastKnownGoodConfig since
\* construction or the last reset, whatever that value is, and rejects only
\* when no value has been stored.
C7_FailedLoadFallsBackToLastKnownGood ==
  (rmLast.kind # "none" /\ rmLast.loaderFailed) =>
     IF rmLast.stored.has
       THEN rmLast.kind = "resolved" /\ rmLast.value = rmLast.stored.value
       ELSE rmLast.kind = "rejected"

\* C8: when the loader failed and no last known good configuration is held,
\* the error thrown to the caller has the kind and the message of the loader's
\* final error, and its context holds the breaker's state at the failure.
C8_UnrecoverableErrorKeepsIdentity ==
  (rmLast.kind = "rejected" /\ rmLast.loaderFailed /\ ~rmLast.stored.has) =>
     /\ rmLast.thrown.kind = rmLast.loaderError.kind
     /\ rmLast.thrown.msg = rmLast.loaderError.msg
     /\ "circuitBreakerState" \in DOMAIN rmLast.thrown.context
     /\ rmLast.thrown.context["circuitBreakerState"] = rmLast.cbAtFailure

(***************************************************************************)
(* Claims about ConfigManager.reload                                       *)
(***************************************************************************)
Reloading == {c \in Callers : cmCall[c].pc = "loading"}

\* C9: at most one reload is between its start and its end; isLoading is set
\* exactly while one is (so the guard is released when it ends, committed or
\* failed); a reload() called meanwhile concludes at once as a no-op: it emits
\* nothing, leaves the configuration as it was and does not become a reload in
\* flight or a pending one, and no field of the manager changes.
C9_OverlappingReloadIsNoOp ==
  /\ Cardinality(Reloading) <= 1
  /\ cm.isLoading <=> (Reloading # {})
  /\ cmLast.kind = "noop" =>
        /\ Reloading # {}
        /\ cmLast.caller \notin Reloading
        /\ cmLast.events = <<>>
        /\ cm.config = cmLast.before
        /\ <<cm, cmCall>> = cmLast.pre
  /\ cmLast.kind \in {"committed", "failed"} =>
        (~cm.isLoading /\ cmCall[cmLast.caller].pc = "idle")

C9_Witness ==
  /\ cmLast.kind = "noop"
  /\ Reloading = {"a"}
  /\ cmLast.caller = "b"
  /\ cmCall["a"].index = 2

\* C10: a reload that failed, in loading a file or in validation, leaves the
\* configuration exactly as it was when the reload began and emits 'error'
\* and nothing else.
C10_FailedReloadCommitsNothing ==
  cmLast.kind = "failed" =>
     /\ cm.config = cmLast.before
     /\ cmLast.events = <<"error">>

C10_Witness ==
  /\ cmLast.kind = "failed"
  /\ cmLast.cause = "validate"
  /\ cmLast.newConfig # cm.config
  /\ cm.config # cm.options.defaults
  /\ cm.config = cmLast.before

\* two paths name the same place or one lies below the other
Conflict(p, q) == IsPrefix(p, q) \/ IsPrefix(q, p)

\* the parsed contents of the files of the reload that ended last
ParsedOf(isEnvFile) ==
  {cm.files[i].parsed : i \in {j \in DOMAIN cm.files : cm.files[j].isEnvFile = isEnvFile}}

Without(order, k) == SelectSeq(order, LAMBDA x : x # k)

\* C12 (entries that cannot expire, get and set calls only): a set of a key
\* that is not held, on a cache holding maxSize entries, removes exactly the
\* entry least recently read or written, and the size never exceeds maxSize.
C12_SetEvictsLeastRecentlyUsed ==
  /\ Len(cache.cache) <= cache.maxSize
  /\ (/\ cacheLast.op = "set"
      /\ ~cacheLast.found
      /\ Len(cacheLast.before) = cache.maxSize) =>
        {cacheLast.before[i] : i \in 1..Len(cacheLast.before)} \ KeySet(cache.cache)
          = {Head(cacheLast.used)}

\* C13: get and has find a held entry exactly while its age is at most ttl; an
\* entry they find expired is removed and nothing else changes; has on a live
\* entry leaves the order of the keys as it was, get on a live entry moves its
\* key to the most recently used end.
C13_TtlAndRecency ==
  (cacheLast.op \in {"get", "has"} /\ cacheLast.age >= 0) =>
     /\ cacheLast.found <=> (cacheLast.age <= cache.ttl)
     /\ ~cacheLast.found => MapKeys(cache.cache) = Without(cacheLast.before, cacheLast.key)
     /\ (cacheLast.found /\ cacheLast.op = "has") => MapKeys(cache.cache) = cacheLast.before
     /\ (cacheLast.found /\ cacheLast.op = "get") =>
           MapKeys(cache.cache) = Append(Without(cacheLast.before, cacheLast.key), cacheLast.key)

C13_Witness ==
  /\ cacheLast.op = "get"
  /\ cacheLast.found
  /\ cacheLast.age = cache.ttl
  /\ Len(cacheLast.before) = 2
  /\ cacheLast.before[1] = cacheLast.key

(***************************************************************************)
(* Claims about EnhancedCache                                              *)
(***************************************************************************)
RECURSIVE MemoryOf(_)
MemoryOf(m) == IF m = <<>> THEN 0 ELSE Head(m).val.size + MemoryOf(Tail(m))

\* the entries of the Map before the last call whose keys it no longer holds
EcLeft == {i \in 1..Len(ecLast.before) : ~MapHas(ec.cache, ecLast.before[i].key)}

\* C14: the cache never holds more than maxSize entries, and the memory it
\* tracks is the sum of its entries' estimates and never more than maxMemory;
\* the entries a set removes are the first ones in order of use (the key
\* written aside), and a set of a value estimated above maxMemory leaves the
\* cache as it was.
C14_WithinSizeAndMemory ==
  /\ Len(ec.cache) <= ec.maxSize
  /\ ec.currentMemory <= ec.maxMemory
  /\ ec.currentMemory = MemoryOf(ec.cache)
  /\ ecLast.op = "set" =>
       IF estimateSize(ecLast.value) > ec.maxMemory
         THEN ec.cache = ecLast.before /\ ecLast.calls = <<>>
         ELSE LET order == Without(ecLast.used, ecLast.key)
              IN /\ MapHas(ec.cache, ecLast.key)
                 /\ MapGet(ec.cache, ecLast.key).value = ecLast.value
                 /\ {ecLast.before[i].key : i \in EcLeft}
                      = {order[i] : i \in 1..Cardinality(EcLeft)}

C14_Witness ==
  /\ ecLast.op = "set"
  /\ Len(ecLast.before) = 2
  /\ ~MapHas(ecLast.before, ecLast.key)
  /\ Cardinality(EcLeft) = 2
  /\ Len(ec.cache) = 1

\* C15 (onEvict given): the calls an operation makes to onEvict are, once
\* each, the entries the cache held before it under keys it no longer holds,
\* with their keys; no call is made for anything else.
C15_OnEvictOncePerEntryLeaving ==
  (ec.onEvict /\ ecLast.op # "none") =>
     /\ {ecLast.calls[i] : i \in 1..Len(ecLast.calls)}
          = {[key |-> ecLast.before[i].key, entry |-> ecLast.before[i].val] : i \in EcLeft}
     /\ Len(ecLast.calls) = Cardinality(EcLeft)

C15_Witness ==
  /\ ec.onEvict
  /\ ecLast.op = "clear"
  /\ Len(ecLast.calls) = 2
  /\ ec.cache = <<>>

(***************************************************************************)
(* Claims about SnapshotManager                                            *)
(***************************************************************************)
Distinct(ids) == \A i, j \in 1..Len(ids) : ids[i] = ids[j] => i = j

\* the last n elements of a sequence (all of it when it has fewer)
LastN(ids, n) == SubSeq(ids, IF Len(ids) > n THEN Len(ids) - n + 1 ELSE 1, Len(ids))

IdsOf(snapshots) == [i \in 1..Len(snapshots) |-> snapshots[i].id]

\* C16: as long as the ids created are pairwise distinct and nothing was
\* deleted, the snapshots present are the maxSnapshots most recently created
\* ones (all of them while fewer were created): size(), list() and getAll()
\* give exactly those, in creation order, and getLatest() the last created.
C16_KeepsNewestInCreationOrder ==
  (smLog.kept /\ Distinct(smLog.ids)) =>
     LET survivors == LastN(smLog.ids, sm.maxSnapshots)
     IN /\ Len(sm.snapshots) = Len(survivors)
        /\ KeySet(sm.snapshots) = {survivors[i] : i \in 1..Len(survivors)}
        /\ SnapshotManager_list(sm) = survivors
        /\ IdsOf(SnapshotManager_getAll(sm)) = survivors
        /\ survivors # <<>> =>
             {x.id : x \in SnapshotManager_getLatest(sm)} = {survivors[Len(survivors)]}

\* C17: create with an id that is already present leaves list() and getAll()
\* as they were, the id once and where it stood.
C17_RecreateKeepsPlace ==
  (smLast.op = "create" /\ smLast.existed) =>
     /\ SnapshotManager_list(sm) = smLast.history
     /\ IdsOf(SnapshotManager_getAll(sm)) = smLast.history
     /\ Cardinality({i \in 1..Len(sm.history) : sm.history[i] = smLast.id}) = 1

\* deep equality of two configurations: the same keys, whatever their order,
\* with equal values, arrays being equal element by element in order
DeepEqual(a, b) ==
  /\ {a[i].k : i \in 1..Len(a)} = {b[j].k : j \in 1..Len(b)}
  /\ \A i \in 1..Len(a), j \in 1..Len(b) : a[i].k = b[j].k => a[i].v = b[j].v

\* C19: compare reports the snapshots held under the two ids, and identical
\* exactly when both are held and their configurations are deep-equal.
C19_CompareIsDeepEquality ==
  smLast.op = "compare" =>
     /\ smLast.result.snapshot1
          = {sm.snapshots[i].val : i \in {j \in 1..Len(sm.snapshots) : sm.snapshots[j].key = smLast.id}}
     /\ smLast.result.snapshot2
          = {sm.snapshots[i].val : i \in {j \in 1..Len(sm.snapshots) : sm.snapshots[j].key = smLast.id2}}
     /\ smLast.result.identical <=>
          /\ MapHas(sm.snapshots, smLast.id)
          /\ MapHas(sm.snapshots, smLast.id2)
          /\ DeepEqual(MapGet(sm.snapshots, smLast.id).config,
                       MapGet(sm.snapshots, smLast.id2).config)

LastOfBurst(i) ==
  \/ i = Len(dbCalls)
  \/ dbCalls[i + 1].at >= dbCalls[i].at + db.delay

RunsOf(i) == {r \in 1..Len(dbRuns) : dbRuns[r].call = i}

\* C20: for any burst of calls in which each call arrives less than delay
\* after the previous one, fn does not run during the burst and runs exactly
\* once, delay after the last call of the burst, with the last call's
\* arguments; the earlier calls of the burst never run and nothing is queued.
\* Every run of fn belongs to the last call of a burst, happens exactly delay
\* after that call and carries its arguments; a call that is not the last of
\* its burst never runs and has no timer left; the last call of a burst that
\* is over has run exactly once; the last call of all has either run once or
\* has the only pending timer, not yet overdue.
C20_OnlyTrailingCallRuns ==
  /\ \A r \in 1..Len(dbRuns) :
       /\ dbRuns[r].call \in 1..Len(dbCalls)
       /\ LastOfBurst(dbRuns[r].call)
       /\ dbRuns[r].at = dbCalls[dbRuns[r].call].at + db.delay
       /\ dbRuns[r].args = dbCalls[dbRuns[r].call].args
  /\ \A i \in 1..Len(dbCalls) :
       /\ ~LastOfBurst(i) => (RunsOf(i) = {} /\ \A timer \in db.timers : timer.id # i)
       /\ (LastOfBurst(i) /\ i < Len(dbCalls)) => Cardinality(RunsOf(i)) = 1
       /\ i = Len(dbCalls) =>
            \/ Cardinality(RunsOf(i)) = 1 /\ db.timers = {}
            \/ /\ RunsOf(i) = {}
               /\ db.timers = {[id |-> i, due |-> dbCalls[i].at + db.delay, args |-> dbCalls[i].args]}
               /\ now <= dbCalls[i].at + db.delay

\* three calls at three different times, each less than delay after the one
\* before and the last with other arguments than the first two, and fn has run
C20_Witness ==
  /\ Len(dbCalls) = 3
  /\ dbCalls[1].at < dbCalls[2].at
  /\ dbCalls[2].at < dbCalls[3].at
  /\ ~LastOfBurst(1)
  /\ ~LastOfBurst(2)
  /\ dbCalls[3].args # dbCalls[1].args
  /\ dbCalls[3].args # dbCalls[2].args
  /\ Len(dbRuns) = 1
  /\ dbRuns[1].args = dbCalls[3].args

(***************************************************************************)
(* Claims about the change records                                         *)
(***************************************************************************)
\* C21: every ChangeRecord emitted (by detectChanges, or in a 'change' event
\* of set, delete, reload or rollback) satisfies: added implies oldValue
\* absent and newValue present; deleted implies oldValue present and newValue
\* absent; modified implies both present and not deep-equal.
C21_RecordsAreWellFormed ==
  \A change \in dcLast.emitted :
     /\ change.type = "added" => (change.oldValue = Absent /\ change.newValue # Absent)
     /\ change.type = "deleted" => (change.oldValue # Absent /\ change.newValue = Absent)
     /\ change.type = "modified" =>
          /\ change.oldValue # Absent
          /\ change.newValue # Absent
          /\ change.oldValue # change.newValue

\* the records emitted for index i (counted from 0) of the array at key
RecordsAt(key, i) ==
  {change \in dcLast.emitted : change.path = <<key, "[", IndexText[i], "]">>}

\* C22: detectChanges on two arrays at the same path emits an 'added' record
\* for every index only the new array has and a 'deleted' record for every
\* index only the old array has, each with a path ending in the bracketed
\* index; a 'modified' record only for an index both arrays have and at which
\* their elements differ.
C22_ArraysAreComparedByIndex ==
  dcLast.op = "replace" =>
    \A key \in (DOMAIN dcLast.before) \cap (DOMAIN dc) :
       (dcLast.before[key].t = "array" /\ dc[key].t = "array") =>
          LET old == dcLast.before[key].items
              new == dc[key].items
          IN \A i \in 1..(MaxItems + 1) :
                /\ (i > Len(old) /\ i <= Len(new)) =>
                      \E change \in RecordsAt(key, i) : change.type = "added"
                /\ (i <= Len(old) /\ i > Len(new)) =>
                      \E change \in RecordsAt(key, i) : change.type = "deleted"
                /\ (\E change \in RecordsAt(key, i) : change.type = "modified") =>
                      (i <= Len(old) /\ i <= Len(new) /\ old[i] # new[i])

(***************************************************************************)
(* Claims about GracefulDegradation                                        *)
(***************************************************************************)
\* the failure a concluded call met before any fallback
OriginalFailure ==
  CASE gdLast.health = "unhealthy" -> Unhealthy(gdLast.service)
    [] gdLast.health = "rejects" -> <<"health", "failure">>
    [] OTHER -> <<"operation", "failure">>

\* C23: executeWithFallback(service, op) invokes op iff no health check is
\* registered for the service or the health check reports healthy; it returns
\* op's result if op was invoked and succeeded, otherwise the result of the
\* registered fallback, invoked exactly once; with no fallback registered it
\* rejects with the original failure unchanged.
C23_FallbackOnFailureOrUnhealthy ==
  gdLast.service # "-" =>
    /\ gdLast.calls.operation = (IF gdLast.health \in {"none", "healthy"} THEN 1 ELSE 0)
    /\ IF gdLast.operation = "resolves"
         THEN /\ gdLast.result = [ok |-> TRUE, value |-> <<"operation", "result">>]
              /\ gdLast.calls.fallback = 0
         ELSE IF gdLast.fallback # "none"
           THEN /\ gdLast.calls.fallback = 1
                /\ gdLast.result = (IF gdLast.fallback = "returns"
                                      THEN [ok |-> TRUE, value |-> <<"fallback", "result">>]
                                      ELSE [ok |-> FALSE, value |-> <<"fallback", "failure">>])
           ELSE /\ gdLast.calls.fallback = 0
                /\ gdLast.result = [ok |-> FALSE, value |-> OriginalFailure]

\* an unhealthy service with a fallback: the operation was skipped and the
\* fallback's value returned, while the other service has no fallback
C23_Witness ==
  /\ gdLast.service = "s1"
  /\ gdLast.health = "unhealthy"
  /\ gdLast.calls = [health |-> 1, operation |-> 0, fallback |-> 1]
  /\ gdLast.result = [ok |-> TRUE, value |-> <<"fallback", "result">>]
  /\ gd.fallbackStrategies["s2"] = "none"

(***************************************************************************)
(* Claims about object-utils                                               *)
(***************************************************************************)
\* every object the call was given is as it was
Unmodified ==
  /\ Len(ouLast.heap) >= Len(ou.heap)
  /\ \A r \in 1..Len(ou.heap) : ouLast.heap[r] = ou.heap[r]

HasReserved(path) == \E i \in 1..Len(path) : path[i] \in ReservedKeys

\* C24: setPath(root, p, v) with any segment of p equal to __proto__,
\* constructor or prototype performs no write: it returns root itself,
\* allocates no container, and no object gains a property.
C24_ReservedSegmentWritesNothing ==
  (ouLast.op = "setPath" /\ HasReserved(ou.path)) =>
     /\ ouLast.result = ou.root
     /\ ouLast.heap = ou.heap

\* a reserved key below a key that holds an object
C24_Witness ==
  /\ ouLast.op = "setPath"
  /\ ou.path = <<"a", "__proto__">>
  /\ ou.root.t = "object"
  /\ ReadProp(ou.heap, ou.root.v, "a").t = "object"
  /\ ouLast.result = ou.root

\* the literal has a value at the path, by its own keys
RECURSIVE HasLeaf(_, _)
HasLeaf(tree, path) ==
  /\ path # <<>>
  /\ tree.t = "tree"
  /\ Head(path) \in DOMAIN tree.v.props
  /\ Len(path) = 1 \/ HasLeaf(tree.v.props[Head(path)], Tail(path))

\* the literal without what it has at the path
RECURSIVE WithoutLeaf(_, _)
WithoutLeaf(tree, path) ==
  IF Len(path) = 1
    THEN Tree(tree.v.array,
              [key \in (DOMAIN tree.v.props) \ {Head(path)} |-> tree.v.props[key]])
    ELSE Tree(tree.v.array,
              [key \in DOMAIN tree.v.props |->
                 IF key = Head(path)
                   THEN WithoutLeaf(tree.v.props[key], Tail(path))
                   ELSE tree.v.props[key]])

\* C25: deletePath(root, p) is a no-op (its result is deep-equal to root)
\* whenever p is absent from root or any segment of p is a reserved key;
\* otherwise the result is root without the leaf at p; in every case root and
\* its nested containers are left unmodified.
C25_DeleteRemovesOnlyTheLeaf ==
  ouLast.op = "deletePath" =>
     /\ Unmodified
     /\ Shape(ouLast.heap, ouLast.result)
          = (IF HasReserved(ou.path) \/ ~HasLeaf(Shape(ou.heap, ou.root), ou.path)
               THEN Shape(ou.heap, ou.root)
               ELSE WithoutLeaf(Shape(ou.heap, ou.root), ou.path))

\* every container from x down the keys was allocated by the call
RECURSIVE FreshAlong(_, _, _)
FreshAlong(x, keys, i) ==
  /\ x.t = "object"
  /\ x.v > Len(ou.heap)
  /\ i >= Len(keys) \/ FreshAlong(ReadProp(ouLast.heap, x.v, keys[i]), keys, i + 1)

\* C26: for every object root, every path p of non-reserved keys and every
\* value v (0, '', null and false included), getPath(setPath(root, p, v), p)
\* = v, and root with all of its nested objects is left unmodified, every
\* container from the root to the target key being freshly allocated.
C26_SetThenGetRoundTrip ==
  (ouLast.op = "setPath" /\ ou.root.t = "object" /\ ~HasReserved(ou.path)) =>
     /\ ouLast.other = ou.value
     /\ Unmodified
     /\ FreshAlong(ouLast.result, ou.path, 1)

\* C27: mergeDeep(mergeDeep(t, s1), s2) is deep-equal to mergeDeep(t, s1, s2)
\* for mapping-valued t, s1, s2 whose values are nested mappings, arrays or
\* scalars, and neither t nor any source is mutated.
C27_MergeIsSequential ==
  ouLast.op = "mergeDeep" =>
     /\ Shape(ouLast.heap, ouLast.result) = Shape(ouLast.heap, ouLast.other)
     /\ Unmodified

\* a merge in which both sources change the result: a nested mapping is
\* merged and an array replaced
C27_Witness ==
  /\ ouLast.op = "mergeDeep"
  /\ Shape(ou.heap, ou.root) = Tree(FALSE, [a |-> Tree(FALSE, [b |-> Leaf(1)])])
  /\ Shape(ou.heap, ou.sources[1])
       = Tree(FALSE, [a |-> Tree(FALSE, [a |-> Leaf(0)]), b |-> Leaf(1)])
  /\ Shape(ou.heap, ou.sources[2])
       = Tree(FALSE, [a |-> Tree(TRUE, ("0" :> Leaf(1))), b |-> Tree(FALSE, [a |-> Leaf(1)])])
  /\ Shape(ouLast.heap, ouLast.result) = Shape(ou.heap, ou.sources[2])

(***************************************************************************)
(* EnvResolver: what the placeholders of a value should become, told from  *)
(* the segments its strings were written from                              *)
(***************************************************************************)
\* the segments of all the strings of a value, in the order they are visited
RECURSIVE PlanSegments(_)
PlanSegments(plan) ==
  IF plan.t = "string" THEN plan.s
  ELSE IF plan.items = <<>> THEN <<>>
  ELSE PlanSegments(Head(plan.items)) \o PlanSegments([plan EXCEPT !.items = Tail(plan.items)])

Placeholders(plan) ==
  LET segments == PlanSegments(plan)
  IN {segments[i] : i \in {j \in 1..Len(segments) : ~segments[j].lit}}

\* a placeholder with nothing in the environment and no default
Unresolvable(r, segment) ==
  /\ ~segment.lit
  /\ r.prefix \o segment.name \notin DOMAIN r.env
  /\ ~segment.hasDefault

ExpectedSegment(r, segment) ==
  IF segment.lit THEN segment.name
  ELSE IF r.prefix \o segment.name \in DOMAIN r.env THEN r.env[r.prefix \o segment.name]
  ELSE IF segment.hasDefault THEN segment.default
  ELSE Written(segment)

RECURSIVE ExpectedText(_, _)
ExpectedText(r, segments) ==
  IF segments = <<>> THEN <<>>
  ELSE ExpectedSegment(r, Head(segments)) \o ExpectedText(r, Tail(segments))

RECURSIVE Expected(_, _)
Expected(r, plan) ==
  IF plan.t = "string" THEN Text(ExpectedText(r, plan.s))
  ELSE [plan EXCEPT !.items = [i \in 1..Len(plan.items) |-> Expected(r, plan.items[i])]]

HasPlaceholder(plan) == Placeholders(plan) # {}

\* C29: hasEnvVars answers true exactly when some string of the value holds
\* a placeholder, whatever calls were made on the resolver before.
C29_HasEnvVarsIsIndependentOfEarlierCalls ==
  erLast.op = "hasEnvVars" => (erLast.found <=> HasPlaceholder(erLast.plan))

\* the names of the placeholders that are neither in the environment nor
\* given a default where they occur, each once, in the order they occur
ExpectedMissing(r, plan) ==
  LET unresolvable == SelectSeq(PlanSegments(plan), LAMBDA p : Unresolvable(r, p))
  IN Dedupe([i \in 1..Len(unresolvable) |-> unresolvable[i].name])

\* C30: validate reports as missing exactly the names that are not defined
\* under prefix+NAME and occur without a default (an empty default is a
\* default), valid exactly when none is missing, and whenever it reports
\* valid, resolve in strict mode on the same value does not raise.
C30_ValidateAgreesWithStrictResolve ==
  erLast.op = "validate" =>
    /\ erLast.validated.missing = ExpectedMissing(er, erLast.plan)
    /\ erLast.validated.valid <=> (erLast.validated.missing = <<>>)
    /\ erLast.validated.valid => ~erLast.strictThrows

(***************************************************************************)
(* Further claims about the CircuitBreaker                                 *)
(***************************************************************************)
\* the call that has just concluded closed a HALF_OPEN breaker
JustClosed ==
  /\ cbLast.kind = "ok"
  /\ cbLast.pre.state = "HALF_OPEN"
  /\ cb.state = "CLOSED"

\* C31 (sequential calls): the breaker closes from HALF_OPEN only on the
\* third success in a row since the trial began, with no failure among them,
\* and on closing both the failure counter and the success counter are zero.
C31_ClosesAfterThreeInARowWithCountersZero ==
  JustClosed => (cbTrial = 3 /\ cb.failures = 0 /\ cb.successCount = 0)

(***************************************************************************)
(* Further claims about the ConfigRecoveryManager                          *)
(***************************************************************************)
\* the load that concluded last began at an OPEN breaker before resetTimeout
\* had elapsed since the last failure
BeganWhileOpen ==
  /\ rmLast.kind # "none"
  /\ rmSeen.last.breaker.state = "OPEN"
  /\ rmSeen.last.at - rmSeen.last.breaker.lastFailureTime < resetTimeout

LoadFields == {"operation", "timestamp"}

\* C33 (overlapping loads): while a load is in flight the context holds its
\* 'operation' and 'timestamp' fields, and the error a failing load throws
\* carries them together with the breaker's state.
C33_ContextLastsAsLongAsItsLoad ==
  /\ (\E c \in Callers : rmCall[c].pc # "idle") => LoadFields \subseteq DOMAIN rm.errorContext
  /\ rmLast.kind = "rejected" =>
        (LoadFields \cup {"circuitBreakerState"}) \subseteq DOMAIN rmLast.thrown.context

(***************************************************************************)
(* Claims about a ConfigManager that watches its files                     *)
(***************************************************************************)
\* C34: once destroy() has returned, with no reload in flight at that time,
\* the configuration stays empty, no reload begins and no file is loaded
\* again, also when a file-change notification was debounced before it.
C34_NoReloadAfterDestroy ==
  (wmSeen.destroyed /\ wmSeen.idleAtDestroy) =>
     /\ wm.config = EmptyObject
     /\ ~wm.isLoading
     /\ wmSeen.loadedSinceDestroy = 0

\* the configuration holds what the files hold
Current == wm.config = wmSeen.disk

\* C40: after a file-change notification, with loads that terminate and
\* changes that come to an end, a reload eventually commits what the files
\* hold (unless the manager is destroyed).
C40_LastChangeIsEventuallyLoaded ==
  (wmSeen.notified /\ ~wmSeen.destroyed) ~> (Current \/ wmSeen.destroyed)

(***************************************************************************)
(* Further claims about snapshots and rollback                             *)
(***************************************************************************)
\* the snapshot manager exists and holds a snapshot under the id
Holds(id) == \E x \in cms.snapshotManager : MapHas(x.snapshots, id)

\* C35: rollback(id) to a snapshot that exists makes the configuration equal
\* to the snapshot's and emits 'change' exactly when the configuration
\* differed from it; with no snapshot manager or an unknown id it throws,
\* leaves the configuration as it was and emits nothing.
C35_RollbackRestoresAndReportsChange ==
  cmsLast.op = "rollback" =>
    IF Holds(cmsLast.id)
      THEN /\ cmsLast.ok
           /\ heap[cms.config] = heap[MapGet(ManagerOf(cms).snapshots, cmsLast.id).config]
           /\ (cmsLast.changes # {}) <=> (cmsLast.before # heap[cms.config])
      ELSE /\ ~cmsLast.ok
           /\ heap[cms.config] = cmsLast.before
           /\ cmsLast.changes = {}

\* a rollback to a snapshot the configuration already equals: no 'change'
C35_Witness ==
  /\ cmsLast.op = "rollback"
  /\ Holds(cmsLast.id)
  /\ cmsLast.ok
  /\ cmsLast.changes = {}
  /\ heap[cms.config] # cms.options.defaults
  /\ Len(ManagerOf(cms).snapshots) = 2

\* C36 (interleaved callers): whenever the breaker is OPEN its failure
\* counter is at least failureThreshold, and whenever it is CLOSED the
\* counter is below failureThreshold.
C36_StateAgreesWithFailureCount ==
  /\ cb.state = "OPEN" => cb.failures >= failureThreshold
  /\ cb.state = "CLOSED" => cb.failures < failureThreshold

\* C37: a set of a key that is held and not expired replaces its value and
\* removes no other key, also when the cache holds maxSize entries: the keys
\* held are the same before and after the call.
C37_OverwriteKeepsTheKeys ==
  (/\ cacheLast.op = "set"
   /\ cacheLast.found
   /\ cacheLast.age <= cache.ttl) =>
     KeySet(cache.cache) = {cacheLast.before[i] : i \in 1..Len(cacheLast.before)}

\* C38: after any sequence of set (overwrites and rejected oversized values
\* included), get, has, delete, cleanup and clear, getStats().memoryUsage is
\* the sum of the size estimates recorded in the entries held, and 0 when the
\* cache is empty.
C38_MemoryUsageIsTheSumOfTheEntries ==
  /\ getStats(ec).memoryUsage = MemoryOf(ec.cache)
  /\ getStats(ec).size = 0 => getStats(ec).memoryUsage = 0

\* an overwrite that shrinks the entry, after which a second key is written
C38_Witness ==
  /\ ecLast.op = "set"
  /\ Len(ecLast.before) = 1
  /\ ecLast.before[1].val.size = 4
  /\ ecLast.before[1].key = ecLast.key
  /\ getStats(ec).memoryUsage = 2

\* C39 (maxSnapshots at least 1): after any sequence of create calls, with
\* ids that may repeat, and delete calls, size() is at most maxSnapshots and
\* every id that list() returns is one for which has(id) is true.
C39_WithinLimitAndListedIdsAreHeld ==
  sm.maxSnapshots >= 1 =>
    /\ Len(sm.snapshots) <= sm.maxSnapshots
    /\ \A i \in 1..Len(SnapshotManager_list(sm)) :
          MapHas(sm.snapshots, SnapshotManager_list(sm)[i])

====
